---- MODULE Spec2Model ----
(***************************************************************************)
(* Axis (src/v3/sequencing/dataview.js, second module of the file): the    *)
(* cue map, the cue buckets and the batched update, as a state machine.    *)
(*                                                                         *)
(* Object identity.  JavaScript cues are objects; a bucket holds the very  *)
(* object the cue map holds, and REPLACE mutates it in place.  An object   *)
(* is mutated only while the cue map holds it (it is reached through       *)
(* _cueMap.get), and the cue map holds one object per key, so a reference  *)
(* is modelled as either "the object the cue map holds under key k" (live) *)
(* or a frozen copy of the contents of an object nothing can mutate any    *)
(* more (a cue_copy, or an object the cue map dropped).                    *)
(***************************************************************************)
EXTENDS Integers, Sequences, FiniteSets, TLC

\* ------------------------------------------------------------------ bounds

\* longest batch handed to one update call
MaxBatch == 2

\* cues handed to update in one run, all calls together
MaxCues == 3

\* keys of well-formed cues
Keys == {1, 2}

\* cue.key == undefined
NoKey == 0

\* ---------------------------------------------------------------- Interval

\* The Interval class (util/interval.js) is not among the sources; it is
\* modelled from spec sections 3 and 4.1.
\* tag: "Interval" | "undefined" | "object" (a value that is not an Interval)
Interval(low, high, lowInclude, highInclude) ==
    [tag |-> "Interval", low |-> low, high |-> high,
     lowInclude |-> IF low = high THEN TRUE ELSE lowInclude,
     highInclude |-> IF low = high THEN TRUE ELSE highInclude]

UndefInterval ==
    [tag |-> "undefined", low |-> 0, high |-> 0, lowInclude |-> FALSE, highInclude |-> FALSE]

\* a plain object {} given where an Interval is expected
NotAnInterval ==
    [tag |-> "object", low |-> 0, high |-> 0, lowInclude |-> FALSE, highInclude |-> FALSE]

Length(i) == i.high - i.low

Singular(i) == i.low = i.high

\* Endpoint: value, side and closedness.  Rank at equal value: p) [p p] (p,
\* the order under which two intervals meeting at a point compare as their
\* relation says ([a,b] overlaps [b,c], [a,b) does not).
EndpointLow(i) == <<i.low, IF i.lowInclude THEN 1 ELSE 3>>

EndpointHigh(i) == <<i.high, IF i.highInclude THEN 2 ELSE 0>>

EndpointCompare(e1, e2) ==
    IF e1[1] # e2[1] THEN e1[1] - e2[1] ELSE e1[2] - e2[2]

\* interval.inside(endpoint)
Inside(i, e) ==
    /\ EndpointCompare(EndpointLow(i), e) <= 0
    /\ EndpointCompare(e, EndpointHigh(i)) <= 0

\* a.equals(b): value and closedness match on both sides; the fields of a
\* value that is not an Interval are undefined and match nothing
IntervalEquals(a, b) ==
    /\ b.tag = "Interval"
    /\ a.low = b.low /\ a.high = b.high
    /\ a.lowInclude = b.lowInclude /\ a.highInclude = b.highInclude

Relations ==
    {"OUTSIDE_LEFT", "OVERLAP_LEFT", "COVERED", "EQUALS", "COVERS",
     "OVERLAP_RIGHT", "OUTSIDE_RIGHT"}

\* a.compare(b): the relation of a (a cue's interval) to b (the query), by
\* the two endpoint comparisons
Compare(a, b) ==
    LET cl == EndpointCompare(EndpointLow(a), EndpointLow(b))
        ch == EndpointCompare(EndpointHigh(a), EndpointHigh(b))
    IN  IF EndpointCompare(EndpointHigh(a), EndpointLow(b)) < 0 THEN "OUTSIDE_LEFT"
        ELSE IF EndpointCompare(EndpointLow(a), EndpointHigh(b)) > 0 THEN "OUTSIDE_RIGHT"
        ELSE IF cl = 0 /\ ch = 0 THEN "EQUALS"
        ELSE IF cl < 0 /\ ch < 0 THEN "OVERLAP_LEFT"
        ELSE IF cl > 0 /\ ch > 0 THEN "OVERLAP_RIGHT"
        ELSE IF cl >= 0 /\ ch <= 0 THEN "COVERED"
        ELSE "COVERS"

\* -------------------------------------------------------------------- cues

\* data objects: a1 and a2 are two distinct objects with the same own
\* properties ({x:1} twice); "undefined" is the undefined value
Data == {"a1", "a2"}

UndefData == "undefined"

\* a cue object: {key, interval, data}
Cue(key, interval, data) == [key |-> key, interval |-> interval, data |-> data]

\* the undefined value where a cue is expected
NoCue == Cue(NoKey, UndefInterval, UndefData)

\* references to cue objects
LiveRef(k) == [live |-> TRUE, cue |-> Cue(k, UndefInterval, UndefData)]

Frozen(c) == [live |-> FALSE, cue |-> c]

NoRef == Frozen(NoCue)

\* the contents of the object a reference points to, given the cue map
Deref(cm, r) == IF r.live THEN cm[r.cue.key] ELSE r.cue

\* own properties of a data object
DataProps(d) == IF d \in {"a1", "a2"} THEN "x:1" ELSE d

\* Axis.equals (object_equals): same own property names and values
object_equals(a, b) == DataProps(a) = DataProps(b)

Delta == [NOOP |-> 0, INSERT |-> 1, REPLACE |-> 2, DELETE |-> 3]

\* cue_delta(cue_a, cue_b, equals); equals is "none" (the == operator) or
\* "object_equals"
cue_delta(cue_a, cue_b, equals) ==
    LET a_interval_defined == cue_a # NoCue /\ cue_a.interval.tag # "undefined"
        b_interval_defined == cue_b # NoCue /\ cue_b.interval.tag # "undefined"
        interval_delta ==
            IF ~a_interval_defined /\ ~b_interval_defined THEN Delta.NOOP
            ELSE IF ~a_interval_defined THEN Delta.INSERT
            ELSE IF ~b_interval_defined THEN Delta.DELETE
            ELSE IF IntervalEquals(cue_a.interval, cue_b.interval)
                 THEN Delta.NOOP ELSE Delta.REPLACE
        a_data_defined == cue_a # NoCue /\ cue_a.data # UndefData
        b_data_defined == cue_b # NoCue /\ cue_b.data # UndefData
        eq == IF equals = "object_equals"
              THEN object_equals(cue_a.data, cue_b.data)
              ELSE cue_a.data = cue_b.data
        data_delta ==
            IF ~a_data_defined /\ ~b_data_defined THEN Delta.NOOP
            ELSE IF ~a_data_defined THEN Delta.INSERT
            ELSE IF ~b_data_defined THEN Delta.DELETE
            ELSE IF eq THEN Delta.NOOP ELSE Delta.REPLACE
    IN  [interval |-> interval_delta, data |-> data_delta]

\* cue_delta raises a TypeError: cue_a.interval.equals is not a function
\* when cue_a.interval is a plain object
cue_delta_raises(cue_a, cue_b) ==
    /\ cue_a # NoCue /\ cue_a.interval.tag = "object"
    /\ cue_b # NoCue /\ cue_b.interval.tag # "undefined"

\* ----------------------------------------------------------------- buckets

Infinity == 1000000

CueBucketIds == <<0, 10, 100, 1000, 10000, 100000, Infinity>>

BucketIds == {CueBucketIds[i] : i \in 1..Len(CueBucketIds)}

\* the undefined value where a bucket id is expected
NoBucket == -1

RECURSIVE getCueBucketIdFrom(_, _)
getCueBucketIdFrom(length, i) ==
    IF i > Len(CueBucketIds) THEN NoBucket
    ELSE IF length <= CueBucketIds[i] THEN CueBucketIds[i]
    ELSE getCueBucketIdFrom(length, i + 1)

\* getCueBucketId that passes over the first of CueBucketIds
getCueBucketId_from_ten(interval) ==
    IF interval.tag # "Interval" THEN NoBucket
    ELSE getCueBucketIdFrom(Length(interval), 2)

\* getCueBucketId(interval.length); the length of a value that is not an
\* Interval is undefined, every comparison with it is false
getCueBucketId(interval) ==
    IF interval.tag # "Interval" THEN NoBucket
    ELSE getCueBucketIdFrom(Length(interval), 1)

\* index of the first element of arr with the key, 0 if none (findIndex)
RECURSIVE FindKey(_, _, _)
FindKey(arr, key, i) ==
    IF i > Len(arr) THEN 0
    ELSE IF arr[i].cue.key = key THEN i
    ELSE FindKey(arr, key, i + 1)

RemoveAt(arr, i) == SubSeq(arr, 1, i - 1) \o SubSeq(arr, i + 1, Len(arr))

addCueToArray(arr, ref) ==
    IF FindKey(arr, ref.cue.key, 1) = 0 THEN Append(arr, ref) ELSE arr

\* the array after removeCueFromArray; it returns true iff that is empty
removeCueFromArray(arr, ref) ==
    LET idx == FindKey(arr, ref.cue.key, 1)
    IN  IF idx > 0 THEN RemoveAt(arr, idx) ELSE arr

\* Set.add on an insertion-ordered Set
SetAdd(seq, x) ==
    IF \E i \in 1..Len(seq) : seq[i] = x THEN seq ELSE Append(seq, x)

\* Map.set on a map held as a function
MapSet(f, k, v) == [x \in DOMAIN f \cup {k} |-> IF x = k THEN v ELSE f[x]]

\* Map.delete
MapDelete(f, k) == [x \in DOMAIN f \ {k} |-> f[x]]

EmptyMap == [x \in {} |-> 0]

\* CueBucket.processCue(op, point, cue) on bucket b of axis state s
processCue(s, b, op, point, ref) ==
    LET pm == s.pointMap[b]
        init == DOMAIN pm = {}
        missing == init \/ point \notin DOMAIN pm
        cues == IF missing THEN <<>> ELSE pm[point]
        created1 == IF missing THEN SetAdd(s.created[b], point) ELSE s.created[b]
        cues1 == IF op = "add" THEN addCueToArray(cues, ref)
                 ELSE removeCueFromArray(cues, ref)
        dirty1 == IF op # "add" /\ Len(cues1) = 0
                  THEN SetAdd(s.dirty[b], point) ELSE s.dirty[b]
    IN  [s EXCEPT !.pointMap[b] = MapSet(pm, point, cues1),
                  !.created[b] = created1,
                  !.dirty[b] = dirty1]

\* ------------------------------------------------------------ Axis.update

\* The object the cue map holds under key k leaves the cue map (delete, or
\* set of another object): nothing mutates it any more, so every reference
\* to it now stands for its contents c.
Detach(s, k, c) ==
    LET fix(r) == IF r = LiveRef(k) THEN Frozen(c) ELSE r
    IN  [s EXCEPT
          !.pointMap = [b \in BucketIds |->
              [p \in DOMAIN s.pointMap[b] |->
                  [i \in 1..Len(s.pointMap[b][p]) |-> fix(s.pointMap[b][p][i])]]],
          !.batchMap = [x \in DOMAIN s.batchMap |->
              [s.batchMap[x] EXCEPT !.new = fix(@), !.old = fix(@)]]]

Raise(s, e) == [s EXCEPT !.err = e]

\* the property of an interval value as a JavaScript value: <<>> is undefined
LowOf(i) == IF i.tag = "Interval" THEN <<i.low>> ELSE <<>>

HighOf(i) == IF i.tag = "Interval" THEN <<i.high>> ELSE <<>>

\* !interval.singular
NotSingular(i) == IF i.tag = "Interval" THEN ~Singular(i) ELSE TRUE

\* the processCue calls of _update_cue, in order; a call on a bucket that is
\* undefined raises a TypeError and ends the update
RECURSIVE ProcessCues(_, _, _)
ProcessCues(s, ops, i) ==
    IF i > Len(ops) THEN s
    ELSE IF ops[i].bucket = NoBucket THEN Raise(s, "TypeError")
    ELSE ProcessCues(processCue(s, ops[i].bucket, ops[i].op, ops[i].point[1], ops[i].ref),
                     ops, i + 1)

\* _update_cue, second half: dispatch of the endpoint changes to the buckets.
\* delta is the delta against current_cue; old and new are item.old, item.new
UpdateCueBuckets(s, delta, old, new) ==
    LET io == Deref(s.cueMap, old)
        in == Deref(s.cueMap, new)
        remove_needed == delta.interval \in {Delta.DELETE, Delta.REPLACE}
        add_needed == delta.interval \in {Delta.INSERT, Delta.REPLACE}
        \* item.old.interval.low of an undefined item.old or interval
        old_unreadable == io = NoCue \/ io.interval.tag = "undefined"
        low_changed == IF delta.interval = Delta.REPLACE
                       THEN LowOf(in.interval) # LowOf(io.interval) ELSE TRUE
        high_changed == IF delta.interval = Delta.REPLACE
                        THEN HighOf(in.interval) # HighOf(io.interval) ELSE TRUE
        oldCueBucket == getCueBucketId(io.interval)
        newCueBucket == getCueBucketId(in.interval)
        call(op, b, pt, r) == <<[op |-> op, bucket |-> b, point |-> pt, ref |-> r]>>
        ops ==
            (IF low_changed /\ remove_needed
             THEN call("remove", oldCueBucket, LowOf(io.interval), old) ELSE <<>>)
            \o (IF low_changed /\ add_needed
                THEN call("add", newCueBucket, LowOf(in.interval), new) ELSE <<>>)
            \o (IF high_changed /\ remove_needed /\ NotSingular(io.interval)
                THEN call("remove", oldCueBucket, HighOf(io.interval), old) ELSE <<>>)
            \o (IF high_changed /\ add_needed /\ NotSingular(in.interval)
                THEN call("add", newCueBucket, HighOf(in.interval), new) ELSE <<>>)
    IN  IF delta.interval = Delta.NOOP THEN s
        ELSE IF remove_needed /\ old_unreadable THEN Raise(s, "TypeError")
        ELSE ProcessCues(s, ops, 1)

\* Axis._update_cue(batchMap, current_cue, cue, equals); has_current:
\* current_cue != undefined
_update_cue(s, has_current, cue, equals) ==
    LET key == cue.key
        current == IF has_current THEN s.cueMap[key] ELSE NoCue
        current_cue == IF has_current THEN LiveRef(key) ELSE NoRef
        delta == cue_delta(current, cue, equals)
        isInsert == ~has_current
        isDelete == has_current /\ cue.interval.tag = "undefined" /\ cue.data = UndefData
        \* update cueMap
        s1 == IF isInsert
              THEN [(IF key \in DOMAIN s.cueMap THEN Detach(s, key, s.cueMap[key]) ELSE s)
                        EXCEPT !.cueMap = MapSet(s.cueMap, key, cue)]
              ELSE IF isDelete
              THEN [Detach(s, key, current) EXCEPT !.cueMap = MapDelete(s.cueMap, key)]
              ELSE [s EXCEPT !.cueMap[key] = Cue(key, cue.interval, cue.data)]
        old_cue == IF isInsert THEN NoRef ELSE Frozen(current)
        new_cue == IF isDelete THEN NoRef ELSE LiveRef(key)
        \* the item set earlier in batchMap, if any
        has_item == key \in DOMAIN s1.batchMap
        item_old == IF has_item THEN s1.batchMap[key].old ELSE old_cue
        a == Deref(s1.cueMap, item_old)
        b == Deref(s1.cueMap, new_cue)
        item_delta == IF has_item THEN cue_delta(a, b, "none") ELSE delta
        s2 == [s1 EXCEPT !.batchMap =
                  MapSet(s1.batchMap, key,
                         [new |-> new_cue, old |-> item_old, delta |-> item_delta])]
    IN  IF cue_delta_raises(current, cue) THEN Raise(s, "TypeError")
        ELSE IF delta.interval = Delta.NOOP /\ delta.data = Delta.NOOP
        THEN [s EXCEPT !.batchMap =
                  MapSet(s.batchMap, key,
                         [new |-> current_cue, old |-> current_cue, delta |-> delta])]
        ELSE IF has_item /\ cue_delta_raises(a, b) THEN Raise(s1, "TypeError")
        ELSE UpdateCueBuckets(s2, delta, item_old, new_cue)

\* ---------------------------------------------------------- BinarySearch

\* The BinarySearch class (util/binarysearch.js) is not among the sources;
\* the index is modelled from spec section 4.2 as a sorted sequence.
SeqToSet(seq) == {seq[i] : i \in 1..Len(seq)}

\* point x put into the sorted index, before the first point that is not
\* smaller
RECURSIVE IndexInsert(_, _)
IndexInsert(index, x) ==
    IF index = <<>> THEN <<x>>
    ELSE IF x <= Head(index) THEN <<x>> \o index
    ELSE <<Head(index)>> \o IndexInsert(Tail(index), x)

RECURSIVE IndexInsertAll(_, _, _)
IndexInsertAll(index, to_insert, i) ==
    IF i > Len(to_insert) THEN index
    ELSE IndexInsertAll(IndexInsert(index, to_insert[i]), to_insert, i + 1)

\* pointIndex.update(to_remove, to_insert): the index is a sorted multiset,
\* a point inserted while the index holds it is held twice
IndexUpdate(index, to_remove, to_insert) ==
    IndexInsertAll(SelectSeq(index, LAMBDA p : p \notin SeqToSet(to_remove)),
                   to_insert, 1)

\* flush that leaves the points that have become empty in the point map
flush_keeps_empty(s, b) ==
    [s EXCEPT !.pointIndex[b] =
                  IndexUpdate(@, <<>>,
                      SelectSeq(s.created[b], LAMBDA p : Len(s.pointMap[b][p]) > 0)),
              !.created[b] = <<>>,
              !.dirty[b] = <<>>]

\* pointIndex.lookup(interval): the points the interval covers
IndexLookup(index, interval) ==
    SelectSeq(index, LAMBDA p :
        Inside(interval, <<p, 1>>) /\ Inside(interval, <<p, 2>>))

\* ------------------------------------------------------- CueBucket.flush

\* first loop of flush over created[from..]: r = [pm, to_insert, err]
RECURSIVE FlushCreated(_, _, _)
FlushCreated(r, created, i) ==
    IF i > Len(created) THEN r
    ELSE LET point == created[i]
         IN  IF point \notin DOMAIN r.pm THEN [r EXCEPT !.err = "TypeError"]
             ELSE IF Len(r.pm[point]) > 0
             THEN FlushCreated([r EXCEPT !.to_insert = Append(@, point)], created, i + 1)
             ELSE FlushCreated([r EXCEPT !.pm = MapDelete(@, point)], created, i + 1)

\* second loop of flush over dirty[from..]: r = [pm, to_remove, err]
RECURSIVE FlushDirty(_, _, _)
FlushDirty(r, dirty, i) ==
    IF i > Len(dirty) THEN r
    ELSE LET point == dirty[i]
         IN  IF point \notin DOMAIN r.pm THEN [r EXCEPT !.err = "TypeError"]
             ELSE IF Len(r.pm[point]) = 0
             THEN FlushDirty([r EXCEPT !.to_remove = Append(@, point),
                                       !.pm = MapDelete(@, point)], dirty, i + 1)
             ELSE FlushDirty(r, dirty, i + 1)

\* CueBucket.flush() of bucket b
flush(s, b) ==
    LET r0 == [pm |-> s.pointMap[b], to_insert |-> <<>>, to_remove |-> <<>>, err |-> "none"]
        r1 == FlushCreated(r0, s.created[b], 1)
        r2 == IF r1.err = "none" THEN FlushDirty(r1, s.dirty[b], 1) ELSE r1
    IN  IF Len(s.created[b]) = 0 /\ Len(s.dirty[b]) = 0 THEN s
        ELSE IF r2.err # "none"
        THEN [s EXCEPT !.pointMap[b] = r2.pm, !.err = r2.err]
        ELSE [s EXCEPT !.pointMap[b] = r2.pm,
                       !.pointIndex[b] = IndexUpdate(@, r2.to_remove, r2.to_insert),
                       !.created[b] = <<>>,
                       !.dirty[b] = <<>>]

\* for (let cueBucket of this._cueBuckets.values()) cueBucket.flush()
RECURSIVE FlushAll(_, _)
FlushAll(s, i) ==
    IF i > Len(CueBucketIds) \/ s.err # "none" THEN s
    ELSE FlushAll(flush(s, CueBucketIds[i]), i + 1)

\* ------------------------------------------------------------ Axis.update

\* An argument cue: has_interval and has_data are hasOwnProperty("interval")
\* and hasOwnProperty("data"); key is NoKey when the cue has no key.
ArgCue(key, has_interval, interval, has_data, data) ==
    [key |-> key, has_interval |-> has_interval, interval |-> interval,
     has_data |-> has_data, data |-> data]

\* the axis as the batchMap's reader sees it: every reference read now
ReadBatchMap(s) ==
    [k \in DOMAIN s.batchMap |->
        [new |-> Deref(s.cueMap, s.batchMap[k].new),
         old |-> Deref(s.cueMap, s.batchMap[k].old),
         delta |-> s.batchMap[k].delta]]

\* what a change handler can see of the axis when it is called
AxisView(s) ==
    [cueMap |-> s.cueMap, pointMap |-> s.pointMap, pointIndex |-> s.pointIndex,
     created |-> s.created, dirty |-> s.dirty]

\* this.eventifyTriggerEvent("change", batchMap)
TriggerChange(s) ==
    [s EXCEPT !.events = Append(@, [arg |-> ReadBatchMap(s), axis |-> AxisView(s)])]

\* !cue.interval, a boolean
JsNot(interval) == interval.tag = "undefined"

\* v instanceof Interval
InstanceofInterval(v) == IF v \in BOOLEAN THEN FALSE ELSE v.tag = "Interval"

\* the loop of update over cues[i..]
RECURSIVE UpdateLoop(_, _, _, _, _)
UpdateLoop(s, cues, options, init, i) ==
    IF i > Len(cues) \/ s.err # "none" THEN s
    ELSE
      LET arg == cues[i]
          has_interval == arg.has_interval
          has_data == arg.has_data
          has_current == ~init /\ arg.key \in DOMAIN s.cueMap
          current_cue == IF has_current THEN s.cueMap[arg.key] ELSE NoCue
          cue == IF ~has_current
                 THEN Cue(arg.key,
                          IF has_interval THEN arg.interval ELSE UndefInterval,
                          IF has_data THEN arg.data ELSE UndefData)
                 ELSE IF ~has_interval /\ ~has_data
                 THEN Cue(arg.key, UndefInterval, UndefData)
                 ELSE IF ~has_data
                 THEN Cue(arg.key, arg.interval, current_cue.data)
                 ELSE IF ~has_interval
                 THEN Cue(arg.key, current_cue.interval, arg.data)
                 ELSE Cue(arg.key, arg.interval, arg.data)
      IN  IF options.check /\ arg.key = NoKey
          THEN Raise(s, "illegal cue")
          ELSE IF options.check /\ has_interval /\ InstanceofInterval(JsNot(arg.interval))
          THEN Raise(s, "interval must be Interval")
          ELSE UpdateLoop(_update_cue(s, has_current, cue, options.equals),
                          cues, options, init, i + 1)

\* update with the change event triggered before the buckets are flushed
update_change_before_flush(ax, cues, options) ==
    LET s0 == [cueMap |-> ax.cueMap, pointMap |-> ax.pointMap,
               pointIndex |-> ax.pointIndex, created |-> ax.created,
               dirty |-> ax.dirty, batchMap |-> EmptyMap, err |-> "none",
               events |-> <<>>]
        init == DOMAIN ax.cueMap = {}
        s1 == UpdateLoop(s0, cues, options, init, 1)
    IN  IF s1.err # "none" THEN s1
        ELSE IF DOMAIN s1.batchMap = {} THEN s1
        ELSE FlushAll(TriggerChange(s1), 1)

\* Axis.update(cues, options) on the axis ax; the result carries the axis
\* after the call, the batchMap, the error raised if any and the change
\* events triggered
update(ax, cues, options) ==
    LET s0 == [cueMap |-> ax.cueMap, pointMap |-> ax.pointMap,
               pointIndex |-> ax.pointIndex, created |-> ax.created,
               dirty |-> ax.dirty, batchMap |-> EmptyMap, err |-> "none",
               events |-> <<>>]
        init == DOMAIN ax.cueMap = {}
        s1 == UpdateLoop(s0, cues, options, init, 1)
        s2 == FlushAll(s1, 1)
    IN  IF s1.err # "none" THEN s1
        ELSE IF DOMAIN s1.batchMap = {} THEN s1
        ELSE IF s2.err # "none" THEN s2
        ELSE TriggerChange(s2)

\* ------------------------------------------------------------- lookup

\* the names of the bucket methods; the two numbers are written as strings
Method ==
    [LOOKUP_CUES |-> "lookup-cues", LOOKUP_CUEPOINTS |-> "lookup-cuepoints",
     REMOVE_CUES |-> "remove-cues", INTEGRITY |-> "integrity",
     LOOKUP_POINTS |-> "1", LOOKUP |-> "2"]

\* CueBucket._methodMap: the first key is Method.LOOKUP_REMOVE, a property
\* Method does not have, so that entry sits under the key undefined
_methodMap ==
    [m \in {"undefined", Method.LOOKUP, Method.LOOKUP_POINTS, Method.INTEGRITY} |->
        CASE m = "undefined" -> "lookup_remove"
          [] m = Method.LOOKUP -> "lookup"
          [] m = Method.LOOKUP_POINTS -> "lookup_points"
          [] m = Method.INTEGRITY -> "_integrity"]

\* what a query gives: the list returned, or the error raised
Returns(cues) == [err |-> "none", value |-> cues]

Throws(e) == [err |-> e, value |-> <<>>]

\* the references listed at the points, point after point; a point of the
\* index without a list in the point map is an error
RECURSIVE CuesAtPoints(_, _, _)
CuesAtPoints(pm, points, i) ==
    IF i > Len(points) THEN Returns(<<>>)
    ELSE IF points[i] \notin DOMAIN pm THEN Throws("TypeError")
    ELSE LET rest == CuesAtPoints(pm, points, i + 1)
         IN  IF rest.err # "none" THEN rest
             ELSE Returns(pm[points[i]] \o rest.value)

\* the forEach body of _lookup_cues over the references refs[i..]: a key
\* seen before is skipped, the others are kept if an endpoint is inside
RECURSIVE KeepInside(_, _, _, _, _)
KeepInside(cm, refs, interval, cueSet, i) ==
    IF i > Len(refs) THEN Returns(<<>>)
    ELSE IF refs[i].cue.key \in cueSet
         THEN KeepInside(cm, refs, interval, cueSet, i + 1)
    ELSE LET cue == Deref(cm, refs[i])
             rest == KeepInside(cm, refs, interval, cueSet \cup {refs[i].cue.key}, i + 1)
         IN  IF cue.interval.tag # "Interval" THEN Throws("TypeError")
             ELSE IF rest.err # "none" THEN rest
             ELSE IF \/ Inside(interval, EndpointLow(cue.interval))
                     \/ Inside(interval, EndpointHigh(cue.interval))
                  THEN Returns(<<refs[i]>> \o rest.value)
                  ELSE rest

\* CueBucket._lookup_cues of bucket b
_lookup_cues(ax, b, interval) ==
    LET broader_interval == Interval(interval.low, interval.high, TRUE, TRUE)
        points == IndexLookup(ax.pointIndex[b], broader_interval)
        refs == CuesAtPoints(ax.pointMap[b], points, 1)
    IN  IF refs.err # "none" THEN refs
        ELSE KeepInside(ax.cueMap, refs.value, interval, {}, 1)

\* Array.filter on refs: the cues whose interval stands in a relation of
\* rels to interval
FilterRelation(cm, refs, interval, rels) ==
    SelectSeq(refs, LAMBDA r : Compare(Deref(cm, r).interval, interval) \in rels)

\* Array.filter on refs: the cues whose interval equals interval
FilterEquals(cm, refs, interval) ==
    SelectSeq(refs, LAMBDA r : IntervalEquals(Deref(cm, r).interval, interval))

\* some cue among refs has no interval to read
UnreadableInterval(cm, refs) ==
    \E i \in 1..Len(refs) : Deref(cm, refs[i]).interval.tag # "Interval"

\* CueBucket.lookup of bucket b (its id is its maxLength); mode is the set
\* of the elements of the array
CueBucket_lookup(ax, b, interval, mode) ==
    LET cm == ax.cueMap
        only_equals_needed == mode = {"EQUALS"}
        any_basic_needed ==
            mode \cap {"OVERLAP_LEFT", "COVERED", "EQUALS", "OVERLAP_RIGHT"} # {}
        found == _lookup_cues(ax, b, interval)
        cues ==
            IF ~any_basic_needed THEN Returns(<<>>)
            ELSE IF found.err # "none" THEN found
            ELSE Returns(FilterRelation(cm, found.value, interval, mode \ {"COVERS"}))
        left_interval == Interval(interval.high - b, interval.low, TRUE, TRUE)
        left == _lookup_cues(ax, b, left_interval)
    IN  IF only_equals_needed
        THEN IF interval.low \notin DOMAIN ax.pointMap[b] THEN Throws("TypeError")
             ELSE IF UnreadableInterval(cm, ax.pointMap[b][interval.low])
                  THEN Throws("TypeError")
             ELSE Returns(FilterEquals(cm, ax.pointMap[b][interval.low], interval))
        ELSE IF cues.err # "none" THEN cues
        ELSE IF Length(interval) > b THEN cues
        ELSE IF "COVERS" \notin mode THEN cues
        ELSE IF left.err # "none" THEN left
        ELSE Returns(cues.value \o FilterRelation(cm, left.value, interval, {"COVERS"}))

\* CueBucket.lookup_points of bucket b: with no point of the index in the
\* interval the loop body does not run; its first statement assigns to
\* point, a name declared nowhere, in strict code
CueBucket_lookup_points(ax, b, interval) ==
    LET broader_interval == Interval(interval.low, interval.high, TRUE, TRUE)
        points == IndexLookup(ax.pointIndex[b], broader_interval)
    IN  IF Len(points) = 0 THEN Returns(<<>>) ELSE Throws("ReferenceError")

\* CueBucket.execute of bucket b
execute(ax, b, method, interval, arg) ==
    IF Len(ax.pointIndex[b]) = 0 THEN Returns(<<>>)
    ELSE IF method \notin DOMAIN _methodMap THEN Throws("method not supported")
    ELSE CASE _methodMap[method] = "lookup" -> CueBucket_lookup(ax, b, interval, arg)
           [] _methodMap[method] = "lookup_points" -> CueBucket_lookup_points(ax, b, interval)

\* Axis._execute over the buckets CueBucketIds[i..]
RECURSIVE ExecuteFrom(_, _, _, _, _)
ExecuteFrom(ax, method, interval, arg, i) ==
    IF i > Len(CueBucketIds) THEN Returns(<<>>)
    ELSE LET cues == execute(ax, CueBucketIds[i], method, interval, arg)
             rest == ExecuteFrom(ax, method, interval, arg, i + 1)
         IN  IF cues.err # "none" THEN cues
             ELSE IF rest.err # "none" THEN rest
             ELSE Returns(cues.value \o rest.value)

_execute(ax, method, interval, arg) == ExecuteFrom(ax, method, interval, arg, 1)

\* a mode argument: an array of relations, or left out
ModeArray(rels) == [defined |-> TRUE, rels |-> rels]

ModeOmitted == [defined |-> FALSE, rels |-> {}]

DefaultMode == {"OVERLAP_LEFT", "COVERED", "EQUALS", "COVERS", "OVERLAP_RIGHT"}

\* Axis.lookup
Axis_lookup(ax, interval, mode) ==
    _execute(ax, Method.LOOKUP, interval,
             IF ~mode.defined THEN DefaultMode ELSE mode.rels)

Semantic == [INSIDE |-> "inside", PARTIAL |-> "partial", OVERLAP |-> "overlap"]

\* Axis.getCuesByInterval
getCuesByInterval(ax, interval, semantic) ==
    _execute(ax, Method.LOOKUP_CUES, interval, semantic)

\* Axis.getCuePointsByInterval
getCuePointsByInterval(ax, interval) ==
    _execute(ax, Method.LOOKUP_CUEPOINTS, interval, "undefined")

\* Axis.lookup_points
Axis_lookup_points(ax, interval) ==
    _execute(ax, Method.LOOKUP_POINTS, interval, "undefined")

\* the loop of removeCuesByInterval over cues[i..]: the cue leaves the cue
\* map and eventMap gets {old: cue} under its key
RECURSIVE RemoveFromCueMap(_, _, _)
RemoveFromCueMap(s, cues, i) ==
    IF i > Len(cues) THEN s
    ELSE RemoveFromCueMap(
             [(IF cues[i].live
               THEN Detach(s, cues[i].cue.key, Deref(s.cueMap, cues[i]))
               ELSE s) EXCEPT
                 !.cueMap = MapDelete(@, cues[i].cue.key),
                 !.eventMap = MapSet(@, cues[i].cue.key,
                                     [old |-> Frozen(Deref(s.cueMap, cues[i]))])],
             cues, i + 1)

\* eventMap as its reader sees it
ReadEventMap(s) ==
    [k \in DOMAIN s.eventMap |-> [old |-> Deref(s.cueMap, s.eventMap[k].old)]]

\* this.eventifyTriggerEvent("change", eventMap)
TriggerChangeRemoved(s) ==
    [s EXCEPT !.events = <<[arg |-> ReadEventMap(s), axis |-> AxisView(s)]>>]

\* the body of removeCuesByInterval once this._execute has ended with cues
RemoveCues(s, cues) ==
    IF cues.err # "none" THEN Raise(s, cues.err)
    ELSE TriggerChangeRemoved(RemoveFromCueMap(s, cues.value, 1))

\* Axis.removeCuesByInterval
removeCuesByInterval(ax, interval, semantic) ==
    RemoveCues([cueMap |-> ax.cueMap, pointMap |-> ax.pointMap,
                pointIndex |-> ax.pointIndex, created |-> ax.created,
                dirty |-> ax.dirty, batchMap |-> EmptyMap, eventMap |-> EmptyMap,
                err |-> "none", events |-> <<>>],
               _execute(ax, Method.REMOVE_CUES, interval, semantic))

\* Axis.size
size(ax) == Cardinality(DOMAIN ax.cueMap)

\* ---------------------------------------------------------------- Schedule

\* Schedule.LOOKAHEAD, the lookahead in seconds when options give none
LOOKAHEAD == 5

\* the clock of the timing object counts whole seconds up to MaxClock
MaxClock == 10

\* setVector calls of one run
MaxVectors == 2

\* handlers registered with add_callback
MaxCallbacks == 1

\* motion vectors: position, velocity, acceleration, timestamp
Vector(p, v, a, t) ==
    [tag |-> "vector", position |-> p, velocity |-> v, acceleration |-> a,
     timestamp |-> t]

UndefVector ==
    [tag |-> "undefined", position |-> 0, velocity |-> 0, acceleration |-> 0,
     timestamp |-> 0]

\* this.tid when no timeout is current
NoTid == 0

\* motionutils.isMoving
isMoving(vector) == vector.velocity # 0 \/ vector.acceleration # 0

\* motionutils.calculateVector: the motion at time ts (accelerations are even,
\* so that positions at whole times are whole)
calculateVector(vector, ts) ==
    Vector(vector.position + vector.velocity * (ts - vector.timestamp)
               + (vector.acceleration * (ts - vector.timestamp)
                                      * (ts - vector.timestamp)) \div 2,
           vector.velocity + vector.acceleration * (ts - vector.timestamp),
           vector.acceleration, ts)

\* positions of the motion at the whole times of low..high
PositionsIn(vector, low, high) ==
    {calculateVector(vector, ts).position : ts \in low..high}

\* motionutils.getPositionInterval: the closed interval from the least to the
\* greatest position of the motion during timeInterval
getPositionInterval(timeInterval, vector) ==
    Interval(CHOOSE x \in PositionsIn(vector, timeInterval.low, timeInterval.high) :
                 \A y \in PositionsIn(vector, timeInterval.low, timeInterval.high) : x <= y,
             CHOOSE x \in PositionsIn(vector, timeInterval.low, timeInterval.high) :
                 \A y \in PositionsIn(vector, timeInterval.low, timeInterval.high) : x >= y,
             TRUE, TRUE)

\* endpoint.leftof(e1, e2)
leftof(e1, e2) == EndpointCompare(e1, e2) < 0

\* endpoint.leftof(e, now) with a number for e2: a number stands for the
\* point itself, which only the open high endpoint p) precedes
leftofValue(e, now) == e[1] < now \/ (e[1] = now /\ e[2] = 0)

\* interval.covers(value)
Covers(i, value) ==
    /\ ~leftofValue(EndpointHigh(i), value)
    /\ (i.low < value \/ (i.low = value /\ i.lowInclude))

\* the endpoints of a cue, low first; a singular cue has one
EndpointsOfCue(cue) ==
    IF cue.interval.tag # "Interval" THEN <<>>
    ELSE IF Singular(cue.interval)
    THEN <<[endpoint |-> EndpointLow(cue.interval), key |-> cue.key]>>
    ELSE <<[endpoint |-> EndpointLow(cue.interval), key |-> cue.key],
           [endpoint |-> EndpointHigh(cue.interval), key |-> cue.key]>>

\* the endpoints of the cues of keys k.. of the cue map
RECURSIVE EndpointsFrom(_, _)
EndpointsFrom(cm, k) ==
    IF k \notin Keys THEN <<>>
    ELSE (IF k \in DOMAIN cm THEN EndpointsOfCue(cm[k]) ELSE <<>>)
         \o EndpointsFrom(cm, k + 1)

\* axis.lookup_endpoints(posInterval): the endpoints of the axis whose value
\* lies in posInterval, each with its cue
lookup_endpoints(ax, posInterval) ==
    SelectSeq(EndpointsFrom(ax.cueMap, 1),
              LAMBDA item : Inside(posInterval, item.endpoint))

\* the whole times of timeInterval at which the motion is at value
CrossingTimes(timeInterval, vector, value) ==
    {ts \in timeInterval.low..timeInterval.high :
        /\ Covers(timeInterval, ts)
        /\ calculateVector(vector, ts).position = value}

\* the event of one endpoint: the earliest time of timeInterval at which the
\* motion is at the endpoint, if there is one
EndpointEvent(timeInterval, vector, item) ==
    IF CrossingTimes(timeInterval, vector, item.endpoint[1]) = {} THEN <<>>
    ELSE <<[tsEndpoint |->
              <<CHOOSE ts \in CrossingTimes(timeInterval, vector, item.endpoint[1]) :
                    \A u \in CrossingTimes(timeInterval, vector, item.endpoint[1]) : ts <= u,
                item.endpoint[2]>>,
            key |-> item.key, endpoint |-> item.endpoint]>>

\* motionutils.getEndpointEvents over endpoints[i..]
RECURSIVE EndpointEventsFrom(_, _, _, _)
EndpointEventsFrom(timeInterval, vector, endpoints, i) ==
    IF i > Len(endpoints) THEN <<>>
    ELSE EndpointEvent(timeInterval, vector, endpoints[i])
         \o EndpointEventsFrom(timeInterval, vector, endpoints, i + 1)

\* motionutils.getEndpointEvents
getEndpointEvents(timeInterval, posInterval, vector, endpoints) ==
    EndpointEventsFrom(timeInterval, vector,
        SelectSeq(endpoints, LAMBDA item : Inside(posInterval, item.endpoint)), 1)

\* the range of a timing object without range restrictions
Unbounded == <<-Infinity, Infinity>>

\* the whole times from the timestamp of the vector on at which the motion
\* is at or beyond a bound of the range
RangeTimes(vector, range) ==
    {ts \in vector.timestamp..(MaxClock + LOOKAHEAD) :
        \/ calculateVector(vector, ts).position <= range[1]
        \/ calculateVector(vector, ts).position >= range[2]}

\* motionutils.getRangeIntersect(vector, range)[0]: the first time at which
\* the motion leaves the range, Infinity if it never does
getRangeIntersect(vector, range) ==
    IF RangeTimes(vector, range) = {} THEN Infinity
    ELSE CHOOSE ts \in RangeTimes(vector, range) :
             \A u \in RangeTimes(vector, range) : ts <= u

\* ISSUE 3 of load: the motion touches the endpoint with velocity zero
Tangent(vector, item) ==
    /\ vector.acceleration # 0
    /\ calculateVector(vector, item.tsEndpoint[1]).position = item.endpoint[1]
    /\ calculateVector(vector, item.tsEndpoint[1]).velocity = 0

\* load without the filter of ISSUE 3
load_keeps_tangent(s, endpoints) ==
    SelectSeq(getEndpointEvents(s.timeInterval, s.posInterval, s.vector, endpoints),
              LAMBDA item :
                  /\ ~(getRangeIntersect(s.vector, s.range) <= item.tsEndpoint[1])
                  /\ ~leftof(item.tsEndpoint, EndpointLow(s.timeInterval)))

\* load without the filter of ISSUE 1
load_keeps_out_of_range(s, endpoints) ==
    SelectSeq(getEndpointEvents(s.timeInterval, s.posInterval, s.vector, endpoints),
              LAMBDA item :
                  /\ ~leftof(item.tsEndpoint, EndpointLow(s.timeInterval))
                  /\ ~Tangent(s.vector, item))

\* Schedule.load(endpoints), minimum_tsEndpoint left undefined
load(s, endpoints) ==
    SelectSeq(getEndpointEvents(s.timeInterval, s.posInterval, s.vector, endpoints),
              LAMBDA item :
                  /\ ~(getRangeIntersect(s.vector, s.range) <= item.tsEndpoint[1])
                  /\ ~leftof(item.tsEndpoint, EndpointLow(s.timeInterval))
                  /\ ~Tangent(s.vector, item))

\* queueCmp
queueCmp(a, b) == EndpointCompare(a.tsEndpoint, b.tsEndpoint)

\* item put into the sorted queue behind the items that do not follow it
InsertSorted(queue, item) ==
    IF \E i \in 1..Len(queue) : queueCmp(queue[i], item) > 0
    THEN LET i == CHOOSE i \in 1..Len(queue) :
                      /\ queueCmp(queue[i], item) > 0
                      /\ \A j \in 1..(i - 1) : queueCmp(queue[j], item) <= 0
         IN  SubSeq(queue, 1, i - 1) \o <<item>> \o SubSeq(queue, i, Len(queue))
    ELSE Append(queue, item)

\* this.queue.sort(queueCmp)
RECURSIVE SortQueue(_)
SortQueue(queue) ==
    IF Len(queue) = 0 THEN <<>>
    ELSE InsertSorted(SortQueue(SubSeq(queue, 1, Len(queue) - 1)), queue[Len(queue)])

\* Schedule.push
push(s, eventItems) ==
    [s EXCEPT !.queue =
        SortQueue(@ \o SelectSeq(eventItems,
                                 LAMBDA item : Inside(s.timeInterval, item.tsEndpoint))),
              !.loaded = eventItems]

\* the items at the head of the queue that pop(now) takes
RECURSIVE DueCount(_, _)
DueCount(queue, now) ==
    IF Len(queue) > 0 /\ leftofValue(queue[1].tsEndpoint, now)
    THEN 1 + DueCount(Tail(queue), now)
    ELSE 0

\* pop that takes no item
pop_none(s, now) == s

\* pop that leaves the due items in the queue
pop_keeps_queue(s, now) ==
    [s EXCEPT !.dueEvents = @ \o SubSeq(s.queue, 1, DueCount(s.queue, now))]

\* pop that takes every item of the queue
pop_all(s, now) ==
    [s EXCEPT !.dueEvents = @ \o s.queue,
              !.queue = <<>>]

\* Schedule.pop, the items popped appended to dueEvents
pop(s, now) ==
    [s EXCEPT !.dueEvents = @ \o SubSeq(s.queue, 1, DueCount(s.queue, now)),
              !.queue = SubSeq(@, DueCount(s.queue, now) + 1, Len(@))]

\* Schedule.next: <<>> is undefined
next(s) == IF Len(s.queue) > 0 THEN <<s.queue[1].tsEndpoint[1]>> ELSE <<>>

\* the condition under which advance moves the intervals
AdvanceNeeded(s, now) ==
    \/ s.timeInterval.tag = "undefined"
    \/ leftofValue(EndpointHigh(s.timeInterval), now)

\* advance with a time interval that is closed at its high
AdvanceTo_closed(s, start) ==
    [s EXCEPT !.timeInterval = Interval(start, start + LOOKAHEAD, TRUE, TRUE),
              !.posInterval = getPositionInterval(
                                  Interval(start, start + LOOKAHEAD, TRUE, TRUE),
                                  s.vector),
              !.queue = <<>>]

\* advance that leaves the position interval as it is
AdvanceTo_keeps_positions(s, start) ==
    [s EXCEPT !.timeInterval = Interval(start, start + LOOKAHEAD, TRUE, FALSE),
              !.queue = <<>>]

\* the intervals of advance for the time interval starting at start
AdvanceTo(s, start) ==
    [s EXCEPT !.timeInterval = Interval(start, start + LOOKAHEAD, TRUE, FALSE),
              !.posInterval = getPositionInterval(
                                  Interval(start, start + LOOKAHEAD, TRUE, FALSE),
                                  s.vector),
              !.queue = <<>>]

\* advance that starts the next time interval where the current one starts
advance_restarts(s, now) ==
    IF s.timeInterval.tag = "undefined" THEN AdvanceTo(s, now)
    ELSE IF leftofValue(EndpointHigh(s.timeInterval), now)
    THEN AdvanceTo(s, s.timeInterval.low)
    ELSE s

\* advance that starts the next time interval a second before the high of
\* the current one
advance_overlaps(s, now) ==
    IF s.timeInterval.tag = "undefined" THEN AdvanceTo(s, now)
    ELSE IF leftofValue(EndpointHigh(s.timeInterval), now)
    THEN AdvanceTo(s, s.timeInterval.high - 1)
    ELSE s

\* Schedule.advance
advance(s, now) ==
    IF s.timeInterval.tag = "undefined" THEN AdvanceTo(s, now)
    ELSE IF leftofValue(EndpointHigh(s.timeInterval), now)
    THEN AdvanceTo(s, s.timeInterval.high)
    ELSE s

\* Schedule._notify_callbacks(dueEvents, this): every handler takes the events
_notify_callbacks(s) ==
    [s EXCEPT !.notified =
        IF Len(s.callbacks) > 0
        THEN @ \cup {[tsEndpoint |-> s.dueEvents[i].tsEndpoint,
                      key |-> s.dueEvents[i].key, epoch |-> s.epoch] :
                         i \in 1..Len(s.dueEvents)}
        ELSE @,
              !.calls = @ + Len(s.callbacks)]

\* the least timer id the host has not handed out
FreeId(timers) ==
    CHOOSE id \in 1..(Cardinality(timers) + 1) :
        /\ \A t \in timers : t.id # id
        /\ \A j \in 1..(id - 1) : \E t \in timers : t.id = j

\* Schedule.setTimeout: the host keeps the timeout and fires it when it will
setTimeout(s, target_ts) ==
    IF s.tid # NoTid THEN Raise(s, "at most on timeout")
    ELSE [s EXCEPT !.tid = FreeId(s.timers),
                   !.timers = @ \cup {[id |-> FreeId(s.timers), target |-> target_ts]}]

\* clearTimeout(this.tid)
clearTimeout(timers, tid) == {t \in timers : t.id # tid}

\* this.next() || this.timeInterval.high, then Math.min with the high
TimeoutTarget(s) ==
    IF next(s) = <<>> \/ next(s) = <<0>> THEN s.timeInterval.high
    ELSE IF next(s)[1] < s.timeInterval.high THEN next(s)[1]
    ELSE s.timeInterval.high

\* the vector the handler h2 hands to setVector: from position 0 with
\* velocity 1 at the time of the clock
JumpVector(s) == Vector(0, 1, 0, s.clock)

\* the handler h2 calls schedule.setVector unless it is called from within
\* that call; the model counts the setVector calls up to MaxVectors
Jumps(s) ==
    /\ \E i \in 1..Len(s.callbacks) : s.callbacks[i] = "h2"
    /\ ~s.busy
    /\ s.epoch < MaxVectors

RECURSIVE setVector(_, _, _)

\* the handlers called with the due events; the call of h2 runs setVector
\* to its end before _notify_callbacks returns to run
Notified(s, ax) ==
    IF Jumps(s)
    THEN CHOOSE r \in {[inner EXCEPT !.busy = FALSE, !.dueEvents = s.dueEvents] :
                          inner \in {setVector([s EXCEPT !.busy = TRUE,
                                                         !.epoch = @ + 1,
                                                         !.dueEvents = <<>>],
                                               ax, JumpVector(s))}} : TRUE
    ELSE s

\* the end of run: the callbacks if events are due, then the timeout
\* (x \in {e} names the value of e, computed once)
RunEnd(s, ax) ==
    IF Len(s.dueEvents) > 0
    THEN CHOOSE r \in {IF notified.err # "none" THEN notified
                       ELSE setTimeout(notified, TimeoutTarget(notified)) :
                          notified \in {Notified(n, ax) : n \in {_notify_callbacks(s)}}} :
             TRUE
    ELSE setTimeout(s, TimeoutTarget(s))

\* run after advance has moved the intervals: load, push and pop again
RunLoad(s, ax, now) ==
    CHOOSE r \in {RunEnd(popped, ax) :
                    popped \in {pop(pushed, now) :
                        pushed \in {push(s, eventItems) :
                            eventItems \in {load(s, lookup_endpoints(ax, s.posInterval))}}}} :
        TRUE

\* run after its first pop
RunPopped(s, ax, now) ==
    IF AdvanceNeeded(s, now)
    THEN CHOOSE r \in {RunLoad(advanced, ax, now) : advanced \in {advance(s, now)}} : TRUE
    ELSE RunEnd(s, ax)

\* Schedule.run
run(s, ax, now) ==
    CHOOSE r \in {RunPopped(popped, ax, now) : popped \in {pop(s, now)}} : TRUE

\* setVector once the current motion is cleaned up
SetVectorTo(s, ax, vector) ==
    IF isMoving(vector)
    THEN run([s EXCEPT !.vector = vector], ax, vector.timestamp)
    ELSE [s EXCEPT !.vector = vector]

\* setVector that leaves the timeout of the current motion alone
setVector_keeps_timeout(s, ax, vector) ==
    IF s.vector.tag # "undefined"
    THEN SetVectorTo([s EXCEPT !.timeInterval = UndefInterval,
                               !.posInterval = UndefInterval,
                               !.queue = <<>>],
                     ax, vector)
    ELSE SetVectorTo(s, ax, vector)

\* setVector that leaves the intervals and the queue of the current motion
\* alone
setVector_keeps_intervals(s, ax, vector) ==
    IF s.vector.tag # "undefined"
    THEN SetVectorTo([s EXCEPT !.timers = clearTimeout(@, s.tid),
                               !.tid = NoTid],
                     ax, vector)
    ELSE SetVectorTo(s, ax, vector)

\* setVector that leaves the queue of the current motion alone
setVector_keeps_queue(s, ax, vector) ==
    IF s.vector.tag # "undefined"
    THEN SetVectorTo([s EXCEPT !.timers = clearTimeout(@, s.tid),
                               !.tid = NoTid,
                               !.timeInterval = UndefInterval,
                               !.posInterval = UndefInterval],
                     ax, vector)
    ELSE SetVectorTo(s, ax, vector)

\* Schedule.setVector
setVector(s, ax, vector) ==
    IF s.vector.tag # "undefined"
    THEN SetVectorTo([s EXCEPT !.timers = clearTimeout(@, s.tid),
                               !.tid = NoTid,
                               !.timeInterval = UndefInterval,
                               !.posInterval = UndefInterval,
                               !.queue = <<>>],
                     ax, vector)
    ELSE SetVectorTo(s, ax, vector)

\* onTimeout without the check for a timeout that is too early
onTimeout_runs_early(s, ax, target_ts, now) ==
    IF s.tid # NoTid
    THEN run([s EXCEPT !.tid = NoTid], ax, target_ts)
    ELSE s

\* Schedule.onTimeout(target_ts) at the time now of the clock
onTimeout(s, ax, target_ts, now) ==
    IF s.tid # NoTid
    THEN IF now < target_ts
         THEN setTimeout([s EXCEPT !.tid = NoTid], target_ts)
         ELSE run([s EXCEPT !.tid = NoTid], ax, target_ts)
    ELSE s

\* Schedule.add_callback
add_callback(s, handler) == [s EXCEPT !.callbacks = Append(@, handler)]

\* Schedule.del_callback(handle): an array has no method indexof, the call
\* of the undefined this.callbacks.indexof raises a TypeError before
\* anything is changed
del_callback(s, handle) == [s EXCEPT !.err = "TypeError"]

\* ------------------------------------------------------------- the model

\* --------------------------------------------------------------- Dataview

\* interval.match(other) with the default mask 62: every relation but the
\* two outside ones
Match(interval, other) == Compare(interval, other) \in DefaultMode

\* options.key_filter and options.data_filter: left out, or a function that
\* keeps the keys or the data of a set
NoFilter == [defined |-> FALSE, keep |-> {}]

Filter(keep) == [defined |-> TRUE, keep |-> keep]

\* options.data_convert, when given: a function that changes the data
data_convert(data) ==
    IF data = "a1" THEN "A1" ELSE IF data = "a2" THEN "A2" ELSE data

\* Dataview._cue_keep(cue); NoCue stands for undefined
_cue_keep(d, cue) ==
    IF cue = NoCue THEN FALSE
    ELSE IF ~\E i \in 1..Len(d.intervals) :
                /\ cue.interval.tag = "Interval"
                /\ Match(d.intervals[i], cue.interval)
         THEN FALSE
    ELSE IF d.key_filter.defined /\ cue.key \notin d.key_filter.keep THEN FALSE
    ELSE IF d.data_filter.defined /\ cue.data \notin d.data_filter.keep THEN FALSE
    ELSE TRUE

\* Dataview._cue_convert(cue)
_cue_convert(d, cue) ==
    IF cue # NoCue /\ d.data_convert
    THEN Cue(cue.key, cue.interval, data_convert(cue.data))
    ELSE cue

\* an item of an event map
Item(key, new, old) == [key |-> key, new |-> new, old |-> old]

\* the loop of Dataview._items_filter_convert from item i on
RECURSIVE ItemsFrom(_, _, _)
ItemsFrom(d, items, i) ==
    IF i > Len(items) THEN <<>>
    ELSE LET item == items[i]
             _old == IF _cue_keep(d, item.old) THEN item.old ELSE NoCue
             _new == IF _cue_keep(d, item.new) THEN item.new ELSE NoCue
             rest == ItemsFrom(d, items, i + 1)
         IN  IF item.new = NoCue /\ item.old = NoCue THEN rest
             ELSE IF _old = NoCue /\ _new = NoCue THEN rest
             ELSE <<Item(item.key, _cue_convert(d, _new), _cue_convert(d, _old))>>
                  \o rest

\* _items_filter_convert with both sides of every item kept
forward_both_sides(d, items) ==
    LET kept == SelectSeq(items, LAMBDA item :
                    _cue_keep(d, item.old) \/ _cue_keep(d, item.new))
    IN  [i \in 1..Len(kept) |-> Item(kept[i].key, _cue_convert(d, kept[i].new),
                                     _cue_convert(d, kept[i].old))]

\* Dataview._items_filter_convert(items)
_items_filter_convert(d, items) == ItemsFrom(d, items, 1)

\* the size after the items from item i on: one more for an add, one less
\* for a remove
RECURSIVE SizeAfter(_, _, _)
SizeAfter(n, items, i) ==
    IF i > Len(items) THEN n
    ELSE SizeAfter(IF items[i].new # NoCue /\ items[i].old = NoCue THEN n + 1
                   ELSE IF items[i].new = NoCue /\ items[i].old # NoCue THEN n - 1
                   ELSE n,
                   items, i + 1)

\* Dataview._onDatasetCallback(eventMap): src is the event map handed in,
\* items the events forwarded
_onDatasetCallback(d, eventMap) ==
    CHOOSE r \in {[d EXCEPT !.size = SizeAfter(@, items, 1),
                            !.src = eventMap,
                            !.items = items] :
                     items \in {_items_filter_convert(d, eventMap)}} : TRUE

\* the getter Dataview.size
Dataview_size(d) == d.size

\* Dataview.values(): the cues of the source dataset that are kept, converted
Dataview_values(d) ==
    {_cue_convert(d, d.ds[k]) : k \in {x \in Keys : _cue_keep(d, d.ds[x])}}

\* the source dataset without cues, no Dataview constructed
NoView ==
    [made |-> FALSE, ds |-> [k \in Keys |-> NoCue], intervals |-> <<>>,
     key_filter |-> NoFilter, data_filter |-> NoFilter, data_convert |-> FALSE,
     size |-> 0, src |-> <<>>, items |-> <<>>]

\* new Dataview(dataset, intervals, options)
Dataview(d, intervals, options) ==
    [d EXCEPT !.made = TRUE, !.intervals = intervals,
              !.key_filter = options.key_filter,
              !.data_filter = options.data_filter,
              !.data_convert = options.data_convert,
              !.size = 0]

\* the event map of dataset.update(cues) from cue i on: for every cue its
\* key, the cue now under the key and the cue before
RECURSIVE EventMapFrom(_, _, _)
EventMapFrom(ds, cues, i) ==
    IF i > Len(cues) THEN <<>>
    ELSE <<Item(cues[i].key, cues[i].new, ds[cues[i].key])>>
         \o EventMapFrom(ds, cues, i + 1)

\* dataset.update(cues): the cues are stored and the callbacks of the dataset
\* are called with the event map
Dataset_update(d, cues) ==
    LET stored == [d EXCEPT !.ds = [k \in Keys |->
                        IF \E i \in 1..Len(cues) : cues[i].key = k
                        THEN (CHOOSE c \in {cues[i].new : i \in {x \in 1..Len(cues) :
                                                cues[x].key = k}} : TRUE)
                        ELSE @[k]]]
    IN  IF d.made THEN _onDatasetCallback(stored, EventMapFrom(d.ds, cues, 1))
        ELSE stored

\* ------------------------------------------------------ IntervalSequencer

\* positions of the two timing objects
MaxPosition == 3

Positions == 0..MaxPosition

\* unique(array1, array2): the elements of array1 that are not in array2
RECURSIVE UniqueFrom(_, _, _)
UniqueFrom(array1, array2, i) ==
    IF i > Len(array1) THEN <<>>
    ELSE IF \E j \in 1..Len(array2) : array1[i] = array2[j]
         THEN UniqueFrom(array1, array2, i + 1)
         ELSE <<array1[i]>> \o UniqueFrom(array1, array2, i + 1)

unique(array1, array2) == UniqueFrom(array1, array2, 1)

\* _isReady with one timing object enough
_isReady_either(q) == q.readyA \/ q.readyB

\* IntervalSequencer._isReady()
_isReady(q) == q.readyA /\ q.readyB

\* the keys, in ascending order from key k on, of the cues of the axis whose
\* interval is partially or fully covered by searchInterval
RECURSIVE KeysByInterval(_, _, _)
KeysByInterval(cues, searchInterval, k) ==
    IF k \notin Keys THEN <<>>
    ELSE IF cues[k].tag = "Interval" /\ Match(cues[k], searchInterval)
         THEN <<k>> \o KeysByInterval(cues, searchInterval, k + 1)
         ELSE KeysByInterval(cues, searchInterval, k + 1)

\* the events of one type for a list of keys
EventsOf(type, keys) == [i \in 1..Len(keys) |-> [type |-> type, key |-> keys[i]]]

\* IntervalSequencer._resolve(): before holds the type of the last event
\* triggered for every key before this call, last after it
_resolve(q) ==
    IF ~_isReady(q) THEN [q EXCEPT !.eList = <<>>, !.before = q.last]
    ELSE LET start == IF q.posA <= q.posB THEN q.posA ELSE q.posB
             end == IF q.posA <= q.posB THEN q.posB ELSE q.posA
             searchInterval == Interval(start, end, TRUE, TRUE)
             oldKeys == q.activeKeys
             newKeys == KeysByInterval(q.cues, searchInterval, 1)
             exitKeys == unique(oldKeys, newKeys)
             enterKeys == unique(newKeys, oldKeys)
             eList == EventsOf("exit", exitKeys) \o EventsOf("enter", enterKeys)
         IN  [q EXCEPT !.activeKeys = newKeys,
                       !.eList = eList,
                       !.before = q.last,
                       !.last = [k \in Keys |->
                           IF \E i \in 1..Len(eList) : eList[i].key = k
                           THEN (CHOOSE t \in {eList[i].type : i \in
                                     {x \in 1..Len(eList) :
                                        /\ eList[x].key = k
                                        /\ \A y \in x + 1..Len(eList) :
                                              eList[y].key # k}} : TRUE)
                           ELSE @[k]]]

\* new IntervalSequencer(timingObjectA, timingObjectB)
NewIntervalSequencer ==
    [readyA |-> FALSE, readyB |-> FALSE, activeKeys |-> <<>>,
     cues |-> [k \in Keys |-> UndefInterval], posA |-> 0, posB |-> 0,
     eList |-> <<>>, before |-> [k \in Keys |-> "none"],
     last |-> [k \in Keys |-> "none"], op |-> "new"]

\* IntervalSequencer._onTimingChangeA()
_onTimingChangeA(q) == _resolve([q EXCEPT !.readyA = TRUE])

\* IntervalSequencer._onTimingChangeB()
_onTimingChangeB(q) == _resolve([q EXCEPT !.readyB = TRUE])

VARIABLES
    cueMap,      \* Axis._cueMap: key -> cue object
    pointMap,    \* per bucket, CueBucket._pointMap: point -> references to cues
    pointIndex,  \* per bucket, CueBucket._pointIndex
    created,     \* per bucket, CueBucket._created
    dirty,       \* per bucket, CueBucket._dirty
    ret,         \* the call that has just ended: arguments, axis before it,
                 \* value returned or error raised, change events triggered
    ncues,       \* cues handed to update so far
    tid,         \* Schedule.tid: the id of the current timeout
    vector,      \* Schedule.vector
    timeInterval, \* Schedule.timeInterval
    posInterval, \* Schedule.posInterval
    queue,       \* Schedule.queue
    callbacks,   \* Schedule.callbacks
    timers,      \* the timeouts the host holds: id and target_ts
    clock,       \* to.clock.now()
    notified,    \* the events the handlers have been called with, each with
                 \* the number of the setVector call whose motion it is of
    nvec,        \* setVector calls so far
    range,       \* to.range: the range of the timing object
    view,        \* a Dataview and its source dataset
    iseq         \* an IntervalSequencer, its axis and its two timing objects

\* the variables of the Schedule and its surroundings
svars == <<tid, vector, timeInterval, posInterval, queue, callbacks, timers,
           clock, notified, nvec, range>>

\* the variables of the Dataview and of the IntervalSequencer
ovars == <<view, iseq>>

vars == <<cueMap, pointMap, pointIndex, created, dirty, ret, ncues, tid, vector,
          timeInterval, posInterval, queue, callbacks, timers, clock, notified,
          nvec, range, view, iseq>>

\* the axis now
Axis == [cueMap |-> cueMap, pointMap |-> pointMap, pointIndex |-> pointIndex,
         created |-> created, dirty |-> dirty]

\* intervals of the cues handed to update
CueIntervals ==
    {Interval(2, 2, TRUE, TRUE), Interval(0, 2, TRUE, TRUE), Interval(0, 12, TRUE, TRUE)}

\* well-formed argument cues
ValidCues ==
    {ArgCue(k, hi, iv, hd, d) :
        k \in Keys, hi \in BOOLEAN, iv \in CueIntervals \cup {UndefInterval},
        hd \in BOOLEAN, d \in Data \cup {UndefData}}
    \ {c \in [key : Keys, has_interval : BOOLEAN,
              interval : CueIntervals \cup {UndefInterval},
              has_data : BOOLEAN, data : Data \cup {UndefData}] :
          \/ ~c.has_interval /\ c.interval # UndefInterval
          \/ ~c.has_data /\ c.data # UndefData}

\* argument cues that options.check is there to reject
InvalidCues ==
    {ArgCue(NoKey, TRUE, Interval(0, 2, TRUE, TRUE), TRUE, "a1")}
    \cup {ArgCue(k, TRUE, NotAnInterval, TRUE, "a1") : k \in Keys}

BatchesOf(S) == UNION {[1..n -> S] : n \in 0..MaxBatch}

\* some cue of the batch brings a data object: only then can update call
\* options.equals with two different objects
BringsData(c) == \E i \in 1..Len(c) : c[i].data # UndefData

\* the update calls of the model: well-formed batches without check (with
\* options.equals where it can matter), and batches with an invalid cue
\* with check
Calls ==
    {[cues |-> c, options |-> [check |-> FALSE, equals |-> "none"]] :
        c \in BatchesOf(ValidCues)}
    \cup
    {[cues |-> c, options |-> [check |-> FALSE, equals |-> "object_equals"]] :
        c \in {x \in BatchesOf(ValidCues) : BringsData(x)}}
    \cup
    {[cues |-> c, options |-> [check |-> TRUE, equals |-> "none"]] :
        c \in {x \in BatchesOf(ValidCues \cup InvalidCues) :
                  \E i \in 1..Len(x) : x[i] \in InvalidCues}}

Idle == [op |-> "none"]

\* the state after the construction of the axis, of the timing object with
\* one of ranges for its range, and of the Schedule
InitWith(ranges) ==
    /\ cueMap = EmptyMap
    /\ pointMap = [b \in BucketIds |-> EmptyMap]
    /\ pointIndex = [b \in BucketIds |-> <<>>]
    /\ created = [b \in BucketIds |-> <<>>]
    /\ dirty = [b \in BucketIds |-> <<>>]
    /\ ret = Idle
    /\ ncues = 0
    /\ tid = NoTid
    /\ vector = UndefVector
    /\ timeInterval = UndefInterval
    /\ posInterval = UndefInterval
    /\ queue = <<>>
    /\ callbacks = <<>>
    /\ timers = {}
    /\ clock = 0
    /\ notified = {}
    /\ nvec = 0
    /\ range \in ranges
    /\ view = NoView
    /\ iseq = NewIntervalSequencer

\* a timing object without range restrictions
Init == InitWith({Unbounded})

\* a call of axis.update(cues, options), the call drawn from calls
UpdateCall(calls) ==
    /\ ret = Idle
    /\ \E call \in calls :
         /\ ncues + Len(call.cues) <= MaxCues
         /\ ncues' = ncues + Len(call.cues)
         /\ \E r \in {update(Axis, call.cues, call.options)} :
              /\ cueMap' = r.cueMap
              /\ pointMap' = r.pointMap
              /\ pointIndex' = r.pointIndex
              /\ created' = r.created
              /\ dirty' = r.dirty
              /\ ret' = [op |-> "update", cues |-> call.cues, options |-> call.options,
                         pre |-> Axis, err |-> r.err, value |-> ReadBatchMap(r),
                         events |-> r.events]
    /\ UNCHANGED svars
    /\ UNCHANGED ovars

Update == UpdateCall(Calls)

\* the caller has the value returned; an error raised by update ends the
\* run, an error raised by a query is caught
Return ==
    /\ ret # Idle
    /\ ret.op = "update" => ret.err = "none"
    /\ ret' = Idle
    /\ UNCHANGED <<cueMap, pointMap, pointIndex, created, dirty, ncues>>
    /\ UNCHANGED svars
    /\ UNCHANGED ovars

Next == Update \/ Return

Spec == Init /\ [][Next]_vars

\* ----------------------------------- the model with cues of lengths 0, 5, 50

\* the cues handed to update: intervals [5,5], [0,5] and [0,50], or a delete
BucketCues ==
    {ArgCue(k, TRUE, iv, FALSE, UndefData) :
        k \in Keys,
        iv \in {Interval(5, 5, TRUE, TRUE), Interval(0, 5, TRUE, TRUE),
                Interval(0, 50, TRUE, TRUE)}}
    \cup {ArgCue(k, TRUE, UndefInterval, TRUE, UndefData) : k \in Keys}

BucketCalls ==
    {[cues |-> c, options |-> [check |-> FALSE, equals |-> "none"]] :
        c \in BatchesOf(BucketCues)}

UpdateB == UpdateCall(BucketCalls)

NextB == UpdateB \/ Return

SpecB == Init /\ [][NextB]_vars

\* ------------------------------------------------- the model with queries

\* the cues of the update calls made between queries: an interval for a
\* key, or the removal of a key
QueryCues ==
    {ArgCue(k, TRUE, iv, FALSE, UndefData) : k \in Keys, iv \in CueIntervals}
    \cup {ArgCue(k, TRUE, UndefInterval, TRUE, UndefData) : k \in Keys}

QueryCalls ==
    {[cues |-> c, options |-> [check |-> FALSE, equals |-> "none"]] :
        c \in BatchesOf(QueryCues)}

\* the intervals asked for
QueryIntervals ==
    {Interval(0, 2, TRUE, TRUE), Interval(1, 3, TRUE, TRUE),
     Interval(2, 2, TRUE, TRUE), Interval(0, 12, TRUE, TRUE),
     Interval(0, 2, FALSE, TRUE), Interval(3, 5, TRUE, FALSE)}

\* the mode arguments: every array of relations lookup accepts, or none
Modes == {ModeArray(m) : m \in SUBSET DefaultMode} \cup {ModeOmitted}

UpdateQ == UpdateCall(QueryCalls)

\* a call of axis.lookup(interval, mode)
Lookup ==
    /\ ret = Idle
    /\ \E interval \in QueryIntervals, mode \in Modes :
         LET r == Axis_lookup(Axis, interval, mode)
         IN  ret' = [op |-> "lookup", interval |-> interval, mode |-> mode,
                     err |-> r.err, value |-> r.value]
    /\ UNCHANGED <<cueMap, pointMap, pointIndex, created, dirty, ncues>>
    /\ UNCHANGED svars
    /\ UNCHANGED ovars

\* a call of axis.getCuesByInterval(interval), semantic left to its default
GetCuesByInterval ==
    /\ ret = Idle
    /\ \E interval \in QueryIntervals :
         LET r == getCuesByInterval(Axis, interval, Semantic.OVERLAP)
         IN  ret' = [op |-> "getCuesByInterval", interval |-> interval,
                     err |-> r.err, value |-> r.value]
    /\ UNCHANGED <<cueMap, pointMap, pointIndex, created, dirty, ncues>>
    /\ UNCHANGED svars
    /\ UNCHANGED ovars

\* a call of axis.lookup_points(interval)
LookupPoints ==
    /\ ret = Idle
    /\ \E interval \in QueryIntervals :
         LET r == Axis_lookup_points(Axis, interval)
         IN  ret' = [op |-> "lookup_points", interval |-> interval,
                     err |-> r.err, value |-> r.value]
    /\ UNCHANGED <<cueMap, pointMap, pointIndex, created, dirty, ncues>>
    /\ UNCHANGED svars
    /\ UNCHANGED ovars

\* a call of axis.getCuePointsByInterval(interval)
GetCuePointsByInterval ==
    /\ ret = Idle
    /\ \E interval \in QueryIntervals :
         LET r == getCuePointsByInterval(Axis, interval)
         IN  ret' = [op |-> "getCuePointsByInterval", interval |-> interval,
                     err |-> r.err, value |-> r.value]
    /\ UNCHANGED <<cueMap, pointMap, pointIndex, created, dirty, ncues>>
    /\ UNCHANGED svars
    /\ UNCHANGED ovars

\* a call of axis.removeCuesByInterval(interval, semantic)
RemoveCuesByInterval ==
    /\ ret = Idle
    /\ \E interval \in QueryIntervals,
          semantic \in {Semantic.INSIDE, Semantic.PARTIAL, Semantic.OVERLAP} :
         \E r \in {removeCuesByInterval(Axis, interval, semantic)} :
             /\ cueMap' = r.cueMap
             /\ pointMap' = r.pointMap
             /\ pointIndex' = r.pointIndex
             /\ created' = r.created
             /\ dirty' = r.dirty
             /\ ret' = [op |-> "removeCuesByInterval", interval |-> interval,
                        semantic |-> semantic, pre |-> Axis, err |-> r.err,
                        value |-> ReadEventMap(r), events |-> r.events]
    /\ UNCHANGED ncues
    /\ UNCHANGED svars
    /\ UNCHANGED ovars

NextQ ==
    \/ UpdateQ
    \/ Lookup
    \/ GetCuesByInterval
    \/ LookupPoints
    \/ GetCuePointsByInterval
    \/ RemoveCuesByInterval
    \/ Return

SpecQ == Init /\ [][NextQ]_vars

\* ------------------------------------------------ the model with a Schedule

\* the Schedule now, with the timeouts the host holds and what a call adds:
\* the error it raises, the events it finds due and loads, the handler calls
Sched ==
    [tid |-> tid, vector |-> vector, timeInterval |-> timeInterval,
     posInterval |-> posInterval, queue |-> queue, callbacks |-> callbacks,
     timers |-> timers, notified |-> notified, epoch |-> nvec, range |-> range,
     clock |-> clock, busy |-> FALSE, err |-> "none", dueEvents |-> <<>>, loaded |-> <<>>, calls |-> 0]

\* the Schedule after a call is r
SchedBecomes(r) ==
    /\ tid' = r.tid
    /\ vector' = r.vector
    /\ timeInterval' = r.timeInterval
    /\ posInterval' = r.posInterval
    /\ queue' = r.queue
    /\ callbacks' = r.callbacks
    /\ timers' = r.timers
    /\ notified' = r.notified

\* the cues of the axis the Schedule reads: singular cues at 5 and 10,
\* singular cues at 0 and 4, a cue [0, 4) with a singular cue at 4, cues
\* [-1, 2) and [-1, 4) that start behind every motion
SchedCalls ==
    {[cues |-> <<ArgCue(1, TRUE, i1, FALSE, UndefData),
                 ArgCue(2, TRUE, i2, FALSE, UndefData)>>,
      options |-> [check |-> FALSE, equals |-> "none"]] :
        <<i1, i2>> \in {<<Interval(5, 5, TRUE, TRUE), Interval(10, 10, TRUE, TRUE)>>,
                        <<Interval(0, 0, TRUE, TRUE), Interval(4, 4, TRUE, TRUE)>>,
                        <<Interval(0, 4, TRUE, FALSE), Interval(4, 4, TRUE, TRUE)>>,
                        <<Interval(-1, 2, TRUE, FALSE), Interval(-1, 4, TRUE, FALSE)>>}}

\* the vectors handed to setVector: forward at constant velocity, turning at
\* position 0 one second after the timestamp, starting from rest, and at
\* rest; the timestamp is the time of the clock or time 0
Vectors ==
    {Vector(0, 1, 0, t) : t \in {0, clock}}
    \cup {Vector(1, -2, 2, t) : t \in {0, clock}}
    \cup {Vector(0, 0, 2, t) : t \in {0, clock}}
    \cup {Vector(0, 0, 0, t) : t \in {0, clock}}

\* the motion is at every cue endpoint and range bound it passes at a whole
\* time
OnGrid(v) ==
    \A x \in {range[2]} \cup
              UNION {{EndpointsOfCue(cueMap[k])[i].endpoint[1] :
                         i \in 1..Len(EndpointsOfCue(cueMap[k]))} : k \in DOMAIN cueMap} :
        LET P == PositionsIn(v, v.timestamp, MaxClock + LOOKAHEAD)
        IN  (\E y \in P : y <= x) /\ (\E y \in P : y >= x) => x \in P

\* cues are written to the axis before the motion starts
UpdateS ==
    /\ vector.tag = "undefined"
    /\ UpdateCall(SchedCalls)

\* a call of schedule.add_callback(handler)
AddCallback ==
    /\ ret = Idle
    /\ Len(callbacks) < MaxCallbacks
    /\ callbacks' = add_callback(Sched, "h1").callbacks
    /\ UNCHANGED <<cueMap, pointMap, pointIndex, created, dirty, ret, ncues,
                   tid, vector, timeInterval, posInterval, queue, timers,
                   clock, notified, nvec, range>>
    /\ UNCHANGED ovars

\* a call of schedule.del_callback(handle) with a handle add_callback
\* returned
DelCallback ==
    /\ ret = Idle
    /\ \E i \in 1..Len(callbacks) :
         \E r \in {del_callback(Sched, callbacks[i])} :
              /\ SchedBecomes(r)
              /\ ret' = [op |-> "del_callback", handle |-> callbacks[i],
                         pre |-> Sched, err |-> r.err]
    /\ UNCHANGED <<cueMap, pointMap, pointIndex, created, dirty, ncues, clock, nvec,
                   range>>
    /\ UNCHANGED ovars

\* a call of schedule.setVector(vector)
SetVector ==
    /\ ret = Idle
    /\ nvec < MaxVectors
    /\ \E v \in Vectors :
         /\ OnGrid(v)
         /\ \E r \in {setVector([Sched EXCEPT !.epoch = nvec + 1], Axis, v)} :
              /\ SchedBecomes(r)
              /\ ret' = [op |-> "setVector", vector |-> v, now |-> clock,
                         pre |-> Sched, err |-> r.err, dueEvents |-> r.dueEvents,
                         loaded |-> r.loaded, calls |-> r.calls]
              /\ nvec' = r.epoch
    /\ UNCHANGED <<cueMap, pointMap, pointIndex, created, dirty, ncues, clock, range>>
    /\ UNCHANGED ovars

\* the host fires a timeout it holds, at whatever time: onTimeout(target_ts)
TimerFires ==
    /\ ret = Idle
    /\ \E t \in timers :
         \E r \in {onTimeout([Sched EXCEPT !.timers = @ \ {t}], Axis, t.target, clock)} :
              /\ SchedBecomes(r)
              /\ ret' = [op |-> "timeout", timer |-> t, now |-> clock,
                         pre |-> Sched, err |-> r.err, dueEvents |-> r.dueEvents,
                         loaded |-> r.loaded, calls |-> r.calls]
              /\ nvec' = r.epoch
    /\ UNCHANGED <<cueMap, pointMap, pointIndex, created, dirty, ncues, clock, range>>
    /\ UNCHANGED ovars

\* a second passes on the clock of the timing object
Tick ==
    /\ clock < MaxClock
    /\ clock' = clock + 1
    /\ UNCHANGED <<cueMap, pointMap, pointIndex, created, dirty, ret, ncues,
                   tid, vector, timeInterval, posInterval, queue, callbacks,
                   timers, notified, nvec, range>>
    /\ UNCHANGED ovars

NextS ==
    \/ UpdateS
    \/ AddCallback
    \/ DelCallback
    \/ SetVector
    \/ TimerFires
    \/ Tick
    \/ Return

\* the ranges of the timing object: none, or positions up to 4
Ranges == {Unbounded, <<-Infinity, 4>>}

InitS == InitWith(Ranges)

SpecS == InitS /\ [][NextS]_vars

\* schedule.add_callback(h2), h2 a handler that calls schedule.setVector
\* with a moving vector when it is handed due events
AddJumpCallback ==
    /\ ret = Idle
    /\ Len(callbacks) < MaxCallbacks
    /\ callbacks' = add_callback(Sched, "h2").callbacks
    /\ UNCHANGED <<cueMap, pointMap, pointIndex, created, dirty, ret, ncues,
                   tid, vector, timeInterval, posInterval, queue, timers,
                   clock, notified, nvec, range>>
    /\ UNCHANGED ovars

\* the Schedule whose handler calls back into setVector
NextR ==
    \/ UpdateS
    \/ AddJumpCallback
    \/ SetVector
    \/ TimerFires
    \/ Tick
    \/ Return

SpecR == Init /\ [][NextR]_vars

\* the Schedule where the host goes on firing the timeouts it holds, the
\* clock goes on counting and every call returns
SpecSF ==
    /\ SpecS
    /\ WF_vars(TimerFires)
    /\ WF_vars(Tick)
    /\ WF_vars(Return)

\* ------------------------------------------- Dataview over a source dataset

\* the variables of the Axis
avars == <<cueMap, pointMap, pointIndex, created, dirty, ret, ncues>>

\* the intervals a Dataview is constructed with
ViewIntervals ==
    {<<>>, <<Interval(0, 3, TRUE, FALSE)>>,
     <<Interval(0, 0, TRUE, TRUE), Interval(4, 8, TRUE, TRUE)>>}

\* the options a Dataview is constructed with
Options(key_filter, data_filter, convert) ==
    [key_filter |-> key_filter, data_filter |-> data_filter, data_convert |-> convert]

ViewOptions ==
    {Options(NoFilter, NoFilter, FALSE), Options(Filter({1}), NoFilter, FALSE),
     Options(NoFilter, Filter({"a1"}), TRUE),
     Options(Filter({1}), Filter({"a1"}), TRUE)}

\* the cues handed to the dataset under key k; NoCue deletes the key, a cue
\* may come without an interval
DatasetCues(k) ==
    {NoCue, Cue(k, UndefInterval, "a1"), Cue(k, Interval(0, 1, TRUE, TRUE), "a1"),
     Cue(k, Interval(0, 1, TRUE, TRUE), "a2"), Cue(k, Interval(3, 4, TRUE, TRUE), "a1")}

\* the batches handed to dataset.update: a cue for one key, or one for each
DatasetBatches ==
    {<<[key |-> k, new |-> c]>> : k \in Keys, c \in UNION {DatasetCues(x) : x \in Keys}}
    \cup {<<[key |-> 1, new |-> c1], [key |-> 2, new |-> c2]>> :
             c1 \in DatasetCues(1), c2 \in DatasetCues(2)}

\* a batch names every key once and files every cue under its own key
WellFormedBatch(cues) ==
    /\ Len(cues) <= MaxBatch
    /\ \A i, j \in 1..Len(cues) : i # j => cues[i].key # cues[j].key
    /\ \A i \in 1..Len(cues) : cues[i].new \in DatasetCues(cues[i].key)

\* new Dataview(dataset, intervals, options)
NewDataview ==
    /\ ~view.made
    /\ \E intervals \in ViewIntervals, options \in ViewOptions :
          view' = Dataview(view, intervals, options)
    /\ UNCHANGED <<avars, svars, iseq>>

\* dataset.update(cues), with the callback of the Dataview if there is one
DatasetUpdate ==
    /\ \E cues \in DatasetBatches :
          /\ WellFormedBatch(cues)
          /\ view' = Dataset_update(view, cues)
    /\ UNCHANGED <<avars, svars, iseq>>

NextV ==
    \/ NewDataview
    \/ DatasetUpdate

SpecV == Init /\ [][NextV]_vars

\* ------------------------------------- IntervalSequencer and its surroundings

\* the intervals of the cues handed to addCue
SequencerIntervals ==
    {Interval(1, 2, TRUE, TRUE), Interval(3, 3, TRUE, TRUE), Interval(1, 3, FALSE, TRUE)}

\* the timing objects seen by the handler that runs now: query() gives the
\* positions pa and pb
Queried(q, pa, pb, op) == [q EXCEPT !.posA = pa, !.posB = pb, !.op = op]

\* timing object A reports a change
TimingChangeA ==
    /\ \E pa \in Positions, pb \in Positions :
          iseq' = _onTimingChangeA(Queried(iseq, pa, pb, "changeA"))
    /\ UNCHANGED <<avars, svars, view>>

\* timing object B reports a change
TimingChangeB ==
    /\ \E pa \in Positions, pb \in Positions :
          iseq' = _onTimingChangeB(Queried(iseq, pa, pb, "changeB"))
    /\ UNCHANGED <<avars, svars, view>>

\* addCue(key, interval, data): the axis reports a change, _onAxisChange
AddCue ==
    /\ \E k \in Keys, interval \in SequencerIntervals,
          pa \in Positions, pb \in Positions :
          iseq' = _resolve([Queried(iseq, pa, pb, "addCue") EXCEPT
                               !.cues[k] = interval])
    /\ UNCHANGED <<avars, svars, view>>

\* removeCue(key): the axis reports a change, _onAxisChange
RemoveCue ==
    /\ \E k \in Keys, pa \in Positions, pb \in Positions :
          /\ iseq.cues[k].tag = "Interval"
          /\ iseq' = _resolve([Queried(iseq, pa, pb, "removeCue") EXCEPT
                                  !.cues[k] = UndefInterval])
    /\ UNCHANGED <<avars, svars, view>>

\* one of the two sequencers reports events: _onSequencerChangeA or
\* _onSequencerChangeB
SequencerChange ==
    /\ \E pa \in Positions, pb \in Positions :
          iseq' = _resolve(Queried(iseq, pa, pb, "events"))
    /\ UNCHANGED <<avars, svars, view>>

\* a handler is registered for "enter": eventifyMakeInitEvents("enter")
MakeInitEvents ==
    /\ \E pa \in Positions, pb \in Positions :
          iseq' = _resolve(Queried(iseq, pa, pb, "init"))
    /\ UNCHANGED <<avars, svars, view>>

NextI ==
    \/ TimingChangeA
    \/ TimingChangeB
    \/ AddCue
    \/ RemoveCue
    \/ SequencerChange
    \/ MakeInitEvents

SpecI == Init /\ [][NextI]_vars


\* ------------------------------------------------------------ the claims

\* an update call has just returned its batchMap
UpdateReturned == ret.op = "update" /\ ret.err = "none"

\* the cue under key k before the call, undefined if absent
PreCue(k) == IF k \in DOMAIN ret.pre.cueMap THEN ret.pre.cueMap[k] ELSE NoCue

\* the cue under key k now
PostCue(k) == IF k \in DOMAIN cueMap THEN cueMap[k] ELSE NoCue

\* number of cues of the batch with key k
Occurrences(cues, k) == Cardinality({i \in 1..Len(cues) : cues[i].key = k})

\* C1: in a batch where a key appears more than once, the batchMap entry of
\* that key has old equal to the cue's state before the batch started
\* (undefined if the key was absent), never an intermediate state.
C1_OldIsStateBeforeBatch ==
    UpdateReturned =>
        \A k \in DOMAIN ret.value :
            Occurrences(ret.cues, k) > 1 => ret.value[k].old = PreCue(k)

\* C2: the delta of every batchMap entry is the delta between the cue's
\* state before the batch and its state after the batch, under the data
\* equality of the call.
C2_DeltaIsBeforeToAfter ==
    UpdateReturned =>
        \A k \in DOMAIN ret.value :
            ret.value[k].delta = cue_delta(PreCue(k), PostCue(k), ret.options.equals)

\* a mirror store applies a batchMap: per key, new replaces what it holds
ApplyBatchMap(store, batchMap) ==
    [k \in (DOMAIN store \cup {x \in DOMAIN batchMap : batchMap[x].new # NoCue})
             \ {x \in DOMAIN batchMap : batchMap[x].new = NoCue} |->
        IF k \in DOMAIN batchMap THEN batchMap[k].new ELSE store[k]]

\* C3: a mirror that held the cue map's contents before an update call and
\* applies the returned batchMap holds the cue map's contents after it.
C3_BatchMapReplays ==
    UpdateReturned => ApplyBatchMap(ret.pre.cueMap, ret.value) = cueMap

\* the batch holds a cue that validation is to reject
HasInvalidCue(cues) == \E i \in 1..Len(cues) : cues[i] \in InvalidCues

\* C4: an update with options.check and an invalid cue anywhere in the batch
\* raises and leaves the axis as before the call (cue map, point maps,
\* staging sets, endpoint indexes), with no change event.
C4_AbortBeforeMutation ==
    (ret.op = "update" /\ ret.options.check /\ HasInvalidCue(ret.cues)) =>
        /\ ret.err # "none"
        /\ Axis = ret.pre
        /\ ret.events = <<>>

\* the errors update raises for an argument that fails validation
InvalidArgument == {"illegal cue", "interval must be Interval"}

\* C5: with options.check, update raises an InvalidArgument error for a cue
\* without key and for a cue whose interval is defined and not an Interval.
C5_CheckRejectsInvalidCue ==
    (ret.op = "update" /\ ret.options.check /\ Len(ret.cues) > 0
        /\ ret.cues[1] \in InvalidCues) =>
            ret.err \in InvalidArgument

AxisOf(r) ==
    [cueMap |-> r.cueMap, pointMap |-> r.pointMap, pointIndex |-> r.pointIndex,
     created |-> r.created, dirty |-> r.dirty]

NoOptions == [check |-> FALSE, equals |-> "none"]

\* the cue {key: k, interval: undefined, data: undefined}
DeleteCue(k) == ArgCue(k, TRUE, UndefInterval, TRUE, UndefData)

\* update([cue]) then update([{key, interval: undefined, data: undefined}])
\* on the axis ax: both return and the axis is ax again
RoundTrips(ax, cue) ==
    LET r1 == update(ax, <<cue>>, NoOptions)
        r2 == update(AxisOf(r1), <<DeleteCue(cue.key)>>, NoOptions)
    IN  /\ r1.err = "none"
        /\ r2.err = "none"
        /\ AxisOf(r2) = ax

\* C6: from any state of the axis between calls, inserting a cue under a
\* key that is not present and then deleting the key restores the cue map
\* and every bucket's point map and endpoint index.
C6_InsertDeleteRoundTrip ==
    ret = Idle =>
        \A cue \in ValidCues : cue.key \notin DOMAIN cueMap => RoundTrips(Axis, cue)

\* the call was update([cue]) for one well-formed cue of an existing key
SingleUpdateOfExisting ==
    /\ ret.op = "update"
    /\ Len(ret.cues) = 1
    /\ ret.cues[1] \in ValidCues
    /\ ret.cues[1].key \in DOMAIN ret.pre.cueMap

\* the points of bucket b that list a cue of key k
PointsOf(pm, b, k) ==
    {p \in DOMAIN pm[b] : \E i \in 1..Len(pm[b][p]) : pm[b][p][i].cue.key = k}

\* C7: for an existing key, a cue that omits interval and brings data leaves
\* the stored interval and the buckets unchanged and reports interval NOOP;
\* one that omits data and brings an interval leaves the stored data
\* unchanged and reports data NOOP; one that omits both deletes the cue and
\* removes its endpoints from its bucket.
C7_PartialUpdateMerging ==
    SingleUpdateOfExisting =>
        LET arg == ret.cues[1]
            k == arg.key
        IN  /\ (~arg.has_interval /\ arg.has_data /\ arg.data # UndefData) =>
                  /\ ret.err = "none"
                  /\ PostCue(k).interval = PreCue(k).interval
                  /\ pointMap = ret.pre.pointMap
                  /\ pointIndex = ret.pre.pointIndex
                  /\ ret.value[k].delta.interval = Delta.NOOP
            /\ (arg.has_interval /\ arg.interval # UndefInterval /\ ~arg.has_data) =>
                  /\ ret.err = "none"
                  /\ PostCue(k).data = PreCue(k).data
                  /\ ret.value[k].delta.data = Delta.NOOP
            /\ (~arg.has_interval /\ ~arg.has_data) =>
                  /\ ret.err = "none"
                  /\ k \notin DOMAIN cueMap
                  /\ \A b \in BucketIds : PointsOf(pointMap, b, k) = {}

\* the staging sets of every bucket are empty and its endpoint index holds
\* the points of its point map, each with a cue
Flushed(ax) ==
    \A b \in BucketIds :
        /\ ax.created[b] = <<>>
        /\ ax.dirty[b] = <<>>
        /\ SeqToSet(ax.pointIndex[b]) = DOMAIN ax.pointMap[b]
        /\ \A p \in DOMAIN ax.pointMap[b] : Len(ax.pointMap[b][p]) > 0

Matching(interval, rels) ==
    {LiveRef(k) : k \in {x \in DOMAIN cueMap :
        /\ cueMap[x].interval.tag = "Interval"
        /\ Compare(cueMap[x].interval, interval) \in rels}}

NoDuplicates(seq) == \A i, j \in 1..Len(seq) : seq[i] = seq[j] => i = j

\* C9: lookup(interval, mode), for every mode other than exactly [EQUALS]
\* and for the mode left out, returns exactly the cues of the axis whose
\* interval stands in a relation of the mode to the interval, each once.
C9_LookupReturnsMatchingCues ==
    (ret.op = "lookup" /\ ret.mode # ModeArray({"EQUALS"})) =>
        /\ ret.err = "none"
        /\ NoDuplicates(ret.value)
        /\ SeqToSet(ret.value) =
              Matching(ret.interval, IF ret.mode.defined THEN ret.mode.rels ELSE DefaultMode)

\* C10: getCuesByInterval(i, OVERLAP) does not raise and returns the set of
\* cues lookup(i, [OVERLAP_LEFT, COVERED, EQUALS, COVERS, OVERLAP_RIGHT])
\* returns.
C10_GetCuesByIntervalIsLookup ==
    ret.op = "getCuesByInterval" =>
        /\ ret.err = "none"
        /\ LET r == Axis_lookup(Axis, ret.interval, ModeArray(DefaultMode))
           IN  r.err = "none" /\ SeqToSet(ret.value) = SeqToSet(r.value)

\* the relations a semantic stands for
SemanticRelations(semantic) ==
    CASE semantic = Semantic.INSIDE -> {"COVERED", "EQUALS"}
      [] semantic = Semantic.PARTIAL ->
            {"COVERED", "EQUALS", "OVERLAP_LEFT", "OVERLAP_RIGHT"}
      [] semantic = Semantic.OVERLAP ->
            {"COVERED", "EQUALS", "OVERLAP_LEFT", "OVERLAP_RIGHT", "COVERS"}

\* the keys removeCuesByInterval(interval, semantic) is to remove from cm
KeysToRemove(cm, interval, semantic) ==
    {k \in DOMAIN cm :
        /\ cm[k].interval.tag = "Interval"
        /\ Compare(cm[k].interval, interval) \in SemanticRelations(semantic)}

\* C11: removeCuesByInterval(interval, semantic) removes from the cue map
\* and from every bucket exactly the cues whose relation to the interval
\* belongs to the semantic, leaves every other cue and its points as they
\* were, and emits and returns a map with {old: cue} under the key of each
\* removed cue.
C11_RemoveCuesByInterval ==
    ret.op = "removeCuesByInterval" =>
        LET gone == KeysToRemove(ret.pre.cueMap, ret.interval, ret.semantic)
        IN  /\ ret.err = "none"
            /\ cueMap = [k \in DOMAIN ret.pre.cueMap \ gone |-> ret.pre.cueMap[k]]
            /\ \A b \in BucketIds :
                  /\ \A k \in gone : PointsOf(pointMap, b, k) = {}
                  /\ \A k \in Keys \ gone :
                        PointsOf(pointMap, b, k) = PointsOf(ret.pre.pointMap, b, k)
            /\ ret.value = [k \in gone |-> [old |-> ret.pre.cueMap[k]]]
            /\ Len(ret.events) = 1
            /\ ret.events[1].arg = ret.value

\* the cue has an interval with an endpoint inside the interval
HasEndpointInside(cue, interval) ==
    /\ cue.interval.tag = "Interval"
    /\ \/ Inside(interval, EndpointLow(cue.interval))
       \/ Inside(interval, EndpointHigh(cue.interval))

\* the pairs (point, cue) of the cues of the axis with an endpoint inside
\* the interval, point being the low or the high of the cue's interval
CuePointsInside(interval) ==
    UNION {{[point |-> p, cue |-> LiveRef(k)] :
                p \in {cueMap[k].interval.low, cueMap[k].interval.high}} :
           k \in {x \in DOMAIN cueMap : HasEndpointInside(cueMap[x], interval)}}

\* C12: lookup_points and getCuePointsByInterval do not raise and return
\* exactly the pairs (point, cue) where point is the low or high value of
\* the cue's interval and an endpoint of the cue is inside the interval
\* asked for; a singular cue gives one pair.
C12_EndpointLookup ==
    ret.op \in {"lookup_points", "getCuePointsByInterval"} =>
        /\ ret.err = "none"
        /\ NoDuplicates(ret.value)
        /\ SeqToSet(ret.value) = CuePointsInside(ret.interval)

\* the keys of the cues listed in the point maps of the buckets
BucketKeys(ax) ==
    UNION {UNION {{ax.pointMap[b][p][i].cue.key : i \in 1..Len(ax.pointMap[b][p])} :
                  p \in DOMAIN ax.pointMap[b]} :
           b \in BucketIds}

\* C13: after every update batch and every removeCuesByInterval, the size
\* of the axis is the number of distinct cue keys in the point maps of the
\* buckets.
C13_SizeIsBucketCueCount ==
    (ret.op \in {"update", "removeCuesByInterval"} /\ ret.err = "none") =>
        size(Axis) = Cardinality(BucketKeys(Axis))

\* event item as the handlers of the current motion are called with it
Notice(item) == [tsEndpoint |-> item.tsEndpoint, key |-> item.key, epoch |-> nvec]

\* an event the clock of the model reaches is on the queue and no handler
\* has been called with it
Undelivered ==
    \E i \in 1..Len(queue) :
        queue[i].tsEndpoint[1] <= MaxClock /\ Notice(queue[i]) \notin notified

\* an event leaves the queue of a Schedule with a handler only when the
\* handlers are called with it, its tsEndpoint unchanged, or when setVector
\* is called
LeavesQueueDelivered ==
    \A i \in 1..Len(queue) :
        (Len(callbacks) > 0 /\ nvec' = nvec
            /\ \A j \in 1..Len(queue') : queue'[j] # queue[i])
        => Notice(queue[i]) \in notified'

\* C14: no event is dropped silently: every endpoint event on the queue of
\* a Schedule with a handler is in the end handed to the handlers with the
\* tsEndpoint it was queued with, however the timeouts fire, unless
\* setVector is called before.
C14_QueuedEventsDelivered ==
    /\ [][LeavesQueueDelivered]_vars
    /\ \A n \in 1..MaxVectors :
         (nvec = n /\ Len(callbacks) > 0 /\ Undelivered) ~> (nvec # n \/ ~Undelivered)

\* a call of the Schedule has just ended
ScheduleCall == ret.op \in {"setVector", "timeout"}

\* the call that has just ended has moved the intervals and loaded events
Loaded ==
    \/ ret.op = "setVector" /\ isMoving(vector)
    \/ ret.op = "timeout" /\ timeInterval # ret.pre.timeInterval

\* C15: after every setVector call the state of the previous motion is
\* gone: the only timeout the host holds is the one armed for the new
\* motion, every queued event is a crossing of the new motion inside the
\* new time interval, and the intervals are those of the new vector from
\* its timestamp; a vector that is moving has exactly one timeout armed,
\* and while the vector is not moving no timeout is armed, the queue is
\* empty, both intervals are undefined and no handler is called.
C15_SetVectorResets ==
    /\ ret.op = "setVector" =>
         /\ ret.err = "none"
         /\ vector = ret.vector
         /\ isMoving(vector) =>
              /\ timeInterval = Interval(vector.timestamp,
                                         vector.timestamp + LOOKAHEAD, TRUE, FALSE)
              /\ posInterval = getPositionInterval(timeInterval, vector)
              /\ tid # NoTid
              /\ timers = {[id |-> tid,
                            target |-> IF Len(queue) > 0 /\ queue[1].tsEndpoint[1] # 0
                                       THEN queue[1].tsEndpoint[1]
                                       ELSE timeInterval.high]}
              /\ \A i \in 1..Len(queue) :
                   /\ Inside(timeInterval, queue[i].tsEndpoint)
                   /\ calculateVector(vector, queue[i].tsEndpoint[1]).position
                        = queue[i].endpoint[1]
         /\ ~isMoving(vector) => ret.calls = 0
    /\ (vector.tag = "vector" /\ ~isMoving(vector)) =>
         /\ timers = {}
         /\ tid = NoTid
         /\ queue = <<>>
         /\ timeInterval = UndefInterval
         /\ posInterval = UndefInterval

\* setVector has replaced a motion with a timeout armed and events queued
\* by another motion that is moving
C15_Witness ==
    /\ ret.op = "setVector"
    /\ ret.pre.tid # NoTid
    /\ Len(ret.pre.queue) > 0
    /\ ret.pre.vector # vector
    /\ isMoving(vector)
    /\ Len(queue) > 0

\* C16: whatever the interleaving of setVector calls and timeouts fired,
\* the host holds at most one timeout of the Schedule, the one tid names,
\* and setTimeout is never called while tid is defined: no call raises
\* 'at most on timeout'.
C16_AtMostOneTimer ==
    /\ Cardinality(timers) <= 1
    /\ \A t \in timers : t.id = tid
    /\ ScheduleCall => ret.err = "none"

\* setVector has been called while a timeout was armed, and one timeout is
\* armed after it
C16_Witness ==
    /\ ret.op = "setVector"
    /\ ret.pre.tid # NoTid
    /\ Cardinality(timers) = 1

\* C17: a timeout fired while the clock is before its target runs no cycle:
\* no event is popped, no handler is called, intervals and queue stay as
\* they are, and a timeout for the same target is armed.
C17_EarlyTimeoutRearms ==
    (ret.op = "timeout" /\ ret.now < ret.timer.target) =>
        /\ ret.err = "none"
        /\ ret.dueEvents = <<>>
        /\ ret.calls = 0
        /\ notified = ret.pre.notified
        /\ queue = ret.pre.queue
        /\ timeInterval = ret.pre.timeInterval
        /\ posInterval = ret.pre.posInterval
        /\ vector = ret.pre.vector
        /\ tid # NoTid
        /\ timers = {[id |-> tid, target |-> ret.timer.target]}

\* a timeout has fired before its target with an event in the queue
C17_Witness ==
    /\ ret.op = "timeout"
    /\ ret.now < ret.timer.target
    /\ Len(queue) > 0

\* C18 as stated: a time interval newly created never starts earlier than
\* the one the Schedule held before it.
C18_WindowsOnlyForward ==
    (ScheduleCall /\ ret.pre.timeInterval.tag = "Interval"
                  /\ timeInterval.tag = "Interval") =>
        timeInterval.low >= ret.pre.timeInterval.low

\* C18: a timeout that runs at the high of the time interval replaces it by
\* the time interval that starts at that high, and no timeout makes the time
\* interval start earlier; setVector with a moving vector starts the time
\* interval at the timestamp of the vector.
C18_WindowsAdvance ==
    /\ (ret.op = "timeout" /\ ret.now >= ret.timer.target
          /\ ret.timer.target = ret.pre.timeInterval.high) =>
         timeInterval.low = ret.pre.timeInterval.high
    /\ ret.op = "timeout" => timeInterval.low >= ret.pre.timeInterval.low
    /\ (ret.op = "setVector" /\ isMoving(vector)) =>
         timeInterval.low = vector.timestamp

\* a timeout has moved the time interval
C18_Witness ==
    /\ ret.op = "timeout"
    /\ ret.pre.timeInterval.tag = "Interval"
    /\ timeInterval.low = ret.pre.timeInterval.high

\* the motion is at the endpoint of event item at the time of the event with
\* velocity zero while it accelerates
TouchesOnly(item) ==
    /\ vector.acceleration # 0
    /\ vector.velocity + vector.acceleration * (item.tsEndpoint[1] - vector.timestamp) = 0

\* the first time at which the motion is at a bound of the range of the
\* timing object; Infinity if it never is
LeaveTime ==
    IF \E ts \in vector.timestamp..(MaxClock + LOOKAHEAD) :
           calculateVector(vector, ts).position \notin (range[1] + 1)..(range[2] - 1)
    THEN CHOOSE ts \in vector.timestamp..(MaxClock + LOOKAHEAD) :
             /\ calculateVector(vector, ts).position \notin (range[1] + 1)..(range[2] - 1)
             /\ \A u \in vector.timestamp..(ts - 1) :
                    calculateVector(vector, u).position \in (range[1] + 1)..(range[2] - 1)
    ELSE Infinity

\* the endpoint events of the time interval: the crossings of the endpoints
\* of the axis in the position interval
EndpointEventsNow ==
    getEndpointEvents(timeInterval, posInterval, vector,
                      lookup_endpoints(Axis, posInterval))

\* C19: load drops the endpoint events at which the accelerating motion has
\* velocity zero, so that none is queued or handed to a handler, and keeps
\* the endpoint events of the time interval crossed with another velocity.
C19_TangentSkip ==
    /\ \A i \in 1..Len(queue) : ~TouchesOnly(queue[i])
    /\ ScheduleCall =>
         \A i \in 1..Len(ret.dueEvents) : ~TouchesOnly(ret.dueEvents[i])
    /\ Loaded =>
         ret.loaded = SelectSeq(EndpointEventsNow,
                                LAMBDA item :
                                    /\ ~TouchesOnly(item)
                                    /\ ~leftof(item.tsEndpoint, EndpointLow(timeInterval))
                                    /\ item.tsEndpoint[1] < LeaveTime)

\* events have been loaded for a motion that touches one endpoint with
\* velocity zero and crosses another
C19_Witness ==
    /\ Loaded
    /\ \E i \in 1..Len(EndpointEventsNow) : TouchesOnly(EndpointEventsNow[i])
    /\ Len(ret.loaded) > 0

\* scenario S5: singular cues at positions 5 and 10, motion p=0, v=1, a=0
\* from time 0
S5 ==
    /\ DOMAIN cueMap = {1, 2}
    /\ cueMap[1].interval = Interval(5, 5, TRUE, TRUE)
    /\ cueMap[2].interval = Interval(10, 10, TRUE, TRUE)
    /\ vector = Vector(0, 1, 0, 0)
    /\ range = Unbounded

\* the times of the events of a sequence of events
TimesOf(events) == {events[i].tsEndpoint[1] : i \in 1..Len(events)}

OutOfRange(item) == item.tsEndpoint[1] >= LeaveTime

\* C21: no endpoint event with a timestamp at or after the time at which the
\* motion leaves the range of the timing object is queued or handed to a
\* handler, and of the endpoint events of the time interval those before
\* that time are loaded unless they lie left of the time interval or only
\* touch their endpoint.
C21_RangeRule ==
    /\ \A i \in 1..Len(queue) : ~OutOfRange(queue[i])
    /\ ScheduleCall =>
         \A i \in 1..Len(ret.dueEvents) : ~OutOfRange(ret.dueEvents[i])
    /\ Loaded =>
         /\ \A i \in 1..Len(ret.loaded) : ~OutOfRange(ret.loaded[i])
         /\ \A i \in 1..Len(EndpointEventsNow) :
                (/\ ~OutOfRange(EndpointEventsNow[i])
                 /\ ~TouchesOnly(EndpointEventsNow[i])
                 /\ ~leftof(EndpointEventsNow[i].tsEndpoint, EndpointLow(timeInterval)))
                => \E j \in 1..Len(ret.loaded) : ret.loaded[j] = EndpointEventsNow[i]

\* events have been loaded for a motion that leaves the range within the
\* time interval: one event before that time is loaded, one at that time is
\* not
C21_Witness ==
    /\ Loaded
    /\ LeaveTime < timeInterval.high
    /\ \E i \in 1..Len(EndpointEventsNow) : OutOfRange(EndpointEventsNow[i])
    /\ \E i \in 1..Len(ret.loaded) : ret.loaded[i].tsEndpoint[1] < LeaveTime

\* C22: del_callback(handle) with a handle returned by add_callback returns
\* normally and takes the handler off the callbacks, so that it is called
\* for no later due events, and leaves the other handlers registered.
C22_DelCallbackRemoves ==
    ret.op = "del_callback" =>
        /\ ret.err = "none"
        /\ \A i \in 1..Len(callbacks) : callbacks[i] # ret.handle
        /\ callbacks = SelectSeq(ret.pre.callbacks, LAMBDA h : h # ret.handle)

\* the call was update(cues) without check for a batch of well-formed cues
WellFormedUpdate ==
    /\ ret.op = "update"
    /\ ~ret.options.check
    /\ \A i \in 1..Len(ret.cues) : ret.cues[i] \in ValidCues

\* the batch inserts a key the axis did not hold and then deletes that key
InsertThenDelete(cues, cm) ==
    /\ Len(cues) = 2
    /\ cues[1].key = cues[2].key
    /\ cues[1].key \notin DOMAIN cm
    /\ cues[1].interval # UndefInterval \/ cues[1].data # UndefData
    /\ cues[2].interval = UndefInterval
    /\ cues[2].data = UndefData

\* C23: update without check returns for every batch of well-formed cues,
\* and a batch that inserts a new key and then deletes it, so that its
\* points are created and emptied before the flush, leaves the axis as it
\* was before the batch.
C23_UpdateCompletes ==
    WellFormedUpdate =>
        /\ ret.err = "none"
        /\ InsertThenDelete(ret.cues, ret.pre.cueMap) => Axis = ret.pre

\* the buckets whose point map lists a cue of key k
BucketsOf(k) == {b \in BucketIds : PointsOf(pointMap, b, k) # {}}

\* C24: after every update batch every cue of the cue map with an interval
\* is listed in the point map of exactly one bucket, the first of
\* CueBucketIds that is not smaller than the length of its interval.
C24_OneBucketPerCue ==
    UpdateReturned =>
        \A k \in DOMAIN cueMap :
            cueMap[k].interval.tag = "Interval" =>
                BucketsOf(k) = {getCueBucketId(cueMap[k].interval)}

\* C25: after every update batch every cue of the cue map with an interval
\* is listed in its bucket at the low and the high of its interval and at no
\* other point, and no point of a bucket lists a cue whose key is not in the
\* cue map.
C25_PointsAreEndpoints ==
    UpdateReturned =>
        /\ \A k \in DOMAIN cueMap :
              cueMap[k].interval.tag = "Interval" =>
                  PointsOf(pointMap, getCueBucketId(cueMap[k].interval), k)
                      = {cueMap[k].interval.low, cueMap[k].interval.high}
        /\ BucketKeys(Axis) \subseteq DOMAIN cueMap

BucketRefs(ax) ==
    UNION {UNION {{ax.pointMap[b][p][i] : i \in 1..Len(ax.pointMap[b][p])} :
                  p \in DOMAIN ax.pointMap[b]} :
           b \in BucketIds}

\* the batchMap entry of key k reports a replace
ReportsReplace(k) ==
    \/ ret.value[k].delta.interval = Delta.REPLACE
    \/ ret.value[k].delta.data = Delta.REPLACE

\* C27: after every update batch every cue object a bucket lists at a point
\* is the object the cue map holds under its key, so that a replace made in
\* place is seen through the buckets, and the old cue of a batchMap entry that
\* reports a replace has the interval and the data the cue had before.
C27_CueIdentity ==
    UpdateReturned =>
        /\ \A r \in BucketRefs(Axis) : r.live /\ r.cue.key \in DOMAIN cueMap
        /\ \A k \in DOMAIN ret.value :
              ReportsReplace(k) => ret.value[k].old = PreCue(k)

\* update with current_cue read from the cue map for every cue of the
\* batch, whether or not the axis was empty at the start
UpdateReadingCueMap(ax, cues, options) ==
    LET s0 == [cueMap |-> ax.cueMap, pointMap |-> ax.pointMap,
               pointIndex |-> ax.pointIndex, created |-> ax.created,
               dirty |-> ax.dirty, batchMap |-> EmptyMap, err |-> "none",
               events |-> <<>>]
        s1 == UpdateLoop(s0, cues, options, FALSE, 1)
        s2 == FlushAll(s1, 1)
    IN  IF s1.err # "none" THEN s1
        ELSE IF DOMAIN s1.batchMap = {} THEN s1
        ELSE IF s2.err # "none" THEN s2
        ELSE TriggerChange(s2)

\* the call has the outcome r: error, cue map, buckets and batchMap
SameOutcome(r) ==
    /\ ret.err = r.err
    /\ cueMap = r.cueMap
    /\ pointMap = r.pointMap
    /\ pointIndex = r.pointIndex
    /\ ret.value = ReadBatchMap(r)

\* C28: a batch of well-formed cues applied to an empty axis leaves the cue
\* map, the buckets and the batchMap that the same batch leaves when
\* current_cue is read from the cue map for every cue.
C28_InitShortcutIsOptimisation ==
    (WellFormedUpdate /\ ret.pre.cueMap = EmptyMap) =>
        \E r \in {UpdateReadingCueMap(ret.pre, ret.cues, ret.options)} : SameOutcome(r)

\* C29: lookup(interval, [EQUALS]) returns the cues of the axis whose
\* interval equals the interval asked for, each once, and returns the empty
\* list without raising when no cue has an endpoint at interval.low.
C29_LookupEquals ==
    (ret.op = "lookup" /\ ret.mode = ModeArray({"EQUALS"})) =>
        /\ ret.err = "none"
        /\ NoDuplicates(ret.value)
        /\ SeqToSet(ret.value) = Matching(ret.interval, {"EQUALS"})

\* the update batch that has returned inserted key k: the key was not in the
\* cue map nor listed in a bucket before, and the batch has one cue for it
Inserted(k) ==
    /\ UpdateReturned
    /\ k \in DOMAIN cueMap
    /\ cueMap[k].interval.tag = "Interval"
    /\ k \notin DOMAIN ret.pre.cueMap
    /\ k \notin BucketKeys(ret.pre)
    /\ Occurrences(ret.cues, k) = 1

\* C30 as stated: the axis has the six buckets 10, 100, 1000, 10000, 100000
\* and Infinity, and an inserted cue with a singular interval is held by
\* bucket 10, as an inserted cue of length 5 is.
C30_SixBuckets ==
    /\ DOMAIN pointMap = {10, 100, 1000, 10000, 100000, Infinity}
    /\ \A k \in Keys :
          (Inserted(k) /\ Length(cueMap[k].interval) \in {0, 5}) => BucketsOf(k) = {10}

\* C30: the axis has the seven buckets 0, 10, 100, 1000, 10000, 100000 and
\* Infinity; an inserted cue with a singular interval is held by bucket 0
\* alone, an inserted cue of length 5 by bucket 10 alone and one of length
\* 50 by bucket 100 alone.
C30_SevenBuckets ==
    /\ DOMAIN pointMap = {0, 10, 100, 1000, 10000, 100000, Infinity}
    /\ \A k \in Keys :
          Inserted(k) =>
              /\ Length(cueMap[k].interval) = 0 => BucketsOf(k) = {0}
              /\ Length(cueMap[k].interval) = 5 => BucketsOf(k) = {10}
              /\ Length(cueMap[k].interval) = 50 => BucketsOf(k) = {100}

\* a batch has inserted a cue with a singular interval and a cue of length
\* 5
C30_Witness ==
    \E k1, k2 \in Keys :
        /\ Inserted(k1)
        /\ Inserted(k2)
        /\ Length(cueMap[k1].interval) = 0
        /\ Length(cueMap[k2].interval) = 5

\* C31: every event of the queue has its timestamp in the time interval
\* [timeInterval.low, timeInterval.high), the queue is sorted by queueCmp,
\* and the queue is empty while no time interval is defined.
C31_QueueInWindow ==
    /\ timeInterval.tag = "undefined" => queue = <<>>
    /\ \A i \in 1..Len(queue) :
          /\ Inside(timeInterval, queue[i].tsEndpoint)
          /\ timeInterval.low <= queue[i].tsEndpoint[1]
          /\ queue[i].tsEndpoint[1] < timeInterval.high
    /\ \A i, j \in 1..Len(queue) : i < j => queueCmp(queue[i], queue[j]) <= 0

\* a timeout has run a cycle and left two events with different timestamps
\* in the queue
C31_Witness ==
    /\ ret.op = "timeout"
    /\ ret.now >= ret.timer.target
    /\ timeInterval.tag = "Interval"
    /\ \E i, j \in 1..Len(queue) : queue[i].tsEndpoint[1] < queue[j].tsEndpoint[1]

\* the call that has just ended has run a cycle: setVector with a moving
\* vector, or a timeout not fired before its target
CycleRun ==
    \/ ret.op = "setVector" /\ isMoving(vector)
    \/ ret.op = "timeout" /\ ret.now >= ret.timer.target /\ ret.pre.tid # NoTid

\* the now of that cycle, with which it pops the due events
CycleNow == IF ret.op = "setVector" THEN vector.timestamp ELSE ret.timer.target

\* the cycle found no time interval, or one with its high left of now
CycleAdvances ==
    \/ ret.op = "setVector"
    \/ AdvanceNeeded(ret.pre, CycleNow)

\* C32: a cycle run(now) that finds no time interval, or one whose high is
\* left of now, makes the time interval [now, now + LOOKAHEAD), computes the
\* position interval from it and empties the queue, so that the queue holds
\* events loaded by the cycle only; every other cycle leaves both intervals
\* as they are and takes only the due events off the queue.
C32_AdvanceFromNow ==
    CycleRun =>
        /\ CycleAdvances =>
             /\ timeInterval = Interval(CycleNow, CycleNow + LOOKAHEAD, TRUE, FALSE)
             /\ posInterval = getPositionInterval(timeInterval, vector)
             /\ \A i \in 1..Len(queue) :
                    \E j \in 1..Len(ret.loaded) : ret.loaded[j] = queue[i]
        /\ ~CycleAdvances =>
             /\ timeInterval = ret.pre.timeInterval
             /\ posInterval = ret.pre.posInterval
             /\ ret.pre.queue = ret.dueEvents \o queue

\* a timeout has run a cycle that moved the time interval and loaded an
\* event
C32_Witness ==
    /\ CycleRun
    /\ ret.op = "timeout"
    /\ CycleAdvances
    /\ Len(ret.loaded) > 0

\* C34: the handlers are called only with a list of due events that is not
\* empty, and no event of the list has a timestamp later than the time of
\* the clock at the call (every vector handed to setVector has a timestamp
\* that is not later than the clock).
C34_NoEarlyDelivery ==
    (ScheduleCall /\ ret.calls > 0) =>
        /\ Len(ret.dueEvents) > 0
        /\ \A i \in 1..Len(ret.dueEvents) : ret.dueEvents[i].tsEndpoint[1] <= ret.now
        /\ ret.op = "setVector" => ret.vector.timestamp <= ret.now

\* a timeout has called the handler with an event while a later event
\* stays in the queue
C34_Witness ==
    /\ ret.op = "timeout"
    /\ ret.calls > 0
    /\ Len(queue) > 0

\* a call of the Schedule that calls the handlers does so with events in
\* the order of their timestamps, none of which a handler has been called
\* with since the last setVector, and none earlier than an event a handler
\* has been called with since then
DeliversInOrder ==
    (ret = Idle /\ ret'.op \in {"setVector", "timeout"} /\ ret'.calls > 0) =>
        /\ \A i, j \in 1..Len(ret'.dueEvents) :
               i < j => /\ ret'.dueEvents[i].tsEndpoint[1] <= ret'.dueEvents[j].tsEndpoint[1]
                        /\ ret'.dueEvents[i] # ret'.dueEvents[j]
        /\ \A i \in 1..Len(ret'.dueEvents) :
               \A n \in notified :
                   n.epoch = nvec' =>
                       /\ n.tsEndpoint[1] <= ret'.dueEvents[i].tsEndpoint[1]
                       /\ n # [tsEndpoint |-> ret'.dueEvents[i].tsEndpoint,
                               key |-> ret'.dueEvents[i].key, epoch |-> nvec']

\* C35: between two setVector calls the events are handed to the handlers in
\* non-decreasing order of their timestamps over all the calls of the
\* handlers, and no event is handed over twice.
C35_DeliveryOrder == [][DeliversInOrder]_vars

\* a timeout has called the handler with an event after an earlier call of
\* the handler for the same vector
C35_Witness ==
    /\ ret.op = "timeout"
    /\ ret.calls > 0
    /\ \E n \in ret.pre.notified : n.epoch = nvec

\* C36: a cycle started by a timeout that moves the time interval discards
\* no event: every event the queue held at the timeout is among the due
\* events of the cycle, popped before advance empties the queue, and is
\* handed to the handlers if there is one.
C36_AdvanceDiscardsNothing ==
    (ret.op = "timeout" /\ timeInterval # ret.pre.timeInterval) =>
        /\ Len(ret.dueEvents) >= Len(ret.pre.queue)
        /\ SubSeq(ret.dueEvents, 1, Len(ret.pre.queue)) = ret.pre.queue
        /\ Len(callbacks) > 0 =>
              \A i \in 1..Len(ret.pre.queue) : Notice(ret.pre.queue[i]) \in notified

\* a timeout has moved the time interval with events in the queue
C36_Witness ==
    /\ ret.op = "timeout"
    /\ timeInterval # ret.pre.timeInterval
    /\ Len(ret.pre.queue) > 0
    /\ Len(callbacks) > 0

\* C37: between two setVector calls the time intervals follow one another
\* without gap or overlap: a timeout that moves the time interval, however
\* late it fires, starts the new one at the high of the one before, with the
\* length LOOKAHEAD, and the events it loads have their timestamps in the
\* new time interval, after those of every event loaded before.
C37_WindowsContiguous ==
    (ret.op = "timeout" /\ timeInterval # ret.pre.timeInterval) =>
        /\ timeInterval.low = ret.pre.timeInterval.high
        /\ timeInterval.high = timeInterval.low + LOOKAHEAD
        /\ timeInterval.lowInclude /\ ~timeInterval.highInclude
        /\ ~ret.pre.timeInterval.highInclude
        /\ \A i \in 1..Len(ret.loaded) :
              /\ timeInterval.low <= ret.loaded[i].tsEndpoint[1]
              /\ ret.loaded[i].tsEndpoint[1] < timeInterval.high
        /\ \A i \in 1..Len(ret.pre.queue) :
              ret.pre.queue[i].tsEndpoint[1] < timeInterval.low
        /\ \A n \in ret.pre.notified :
              n.epoch = nvec => n.tsEndpoint[1] < timeInterval.low

\* a timeout fired after its target has moved the time interval and loaded
\* an event
C37_Witness ==
    /\ ret.op = "timeout"
    /\ timeInterval # ret.pre.timeInterval
    /\ ret.now > ret.timer.target
    /\ Len(ret.loaded) > 0

\* the handler h2 has called setVector from within the call that just ended
Reentered ==
    /\ ScheduleCall
    /\ nvec > ret.pre.epoch + (IF ret.op = "setVector" THEN 1 ELSE 0)

\* C38: when a handler called from run calls setVector with a moving vector,
\* the outer run ends without raising "at most on timeout", and afterwards
\* one timeout is outstanding, the one of the newest vector
C38_ReentrantSetVector ==
    Reentered =>
        /\ ret.err = "none"
        /\ vector = JumpVector(ret.pre)
        /\ Cardinality(timers) = 1
        /\ \A t \in timers : t.id = tid

\* a cue is relevant to the view: it matches one of the intervals of the
\* view and passes the key filter and the data filter
Relevant(cue) ==
    /\ cue # NoCue
    /\ cue.interval.tag = "Interval"
    /\ \E i \in 1..Len(view.intervals) :
          Compare(view.intervals[i], cue.interval) \notin {"OUTSIDE_LEFT", "OUTSIDE_RIGHT"}
    /\ view.key_filter.defined => cue.key \in view.key_filter.keep
    /\ view.data_filter.defined => cue.data \in view.data_filter.keep

\* the items of the source event map with a relevant side
RelevantItems == SelectSeq(view.src, LAMBDA item : Relevant(item.old) \/ Relevant(item.new))

\* C33: the Dataview forwards an item of the source iff its old cue or its
\* new cue is relevant to the view, with the side that is not relevant
\* replaced by undefined: a change from not relevant to relevant is forwarded
\* as an add, the reverse as a remove, an item with no relevant side not at all
C33_ForwardsRelevant ==
    view.made =>
        /\ Len(view.items) = Len(RelevantItems)
        /\ \A i \in 1..Len(view.items) :
              /\ view.items[i].key = RelevantItems[i].key
              /\ view.items[i].old = NoCue <=> ~Relevant(RelevantItems[i].old)
              /\ view.items[i].new = NoCue <=> ~Relevant(RelevantItems[i].new)
              /\ view.items[i].old # NoCue =>
                    view.items[i].old = _cue_convert(view, RelevantItems[i].old)
              /\ view.items[i].new # NoCue =>
                    view.items[i].new = _cue_convert(view, RelevantItems[i].new)

\* an update has changed a cue that was not relevant into a relevant one and
\* a relevant one into one that is not: the first is forwarded as an add, the
\* second as a remove
C33_Witness ==
    /\ view.made
    /\ Len(view.src) = 2
    /\ Len(view.items) = 2
    /\ view.src[1].old # NoCue /\ view.items[1].old = NoCue
    /\ view.src[2].new # NoCue /\ view.items[2].new = NoCue

\* C40: the size of the Dataview is the number of cues its values() gives,
\* whatever the order of constructing the view and updating the dataset
C40_SizeIsCount ==
    view.made => Dataview_size(view) = Cardinality(Dataview_values(view))

\* the type of the event triggered for the key of eList[i] before eList[i]
PrevType(i) ==
    IF \E j \in 1..i - 1 : iseq.eList[j].key = iseq.eList[i].key
    THEN iseq.eList[CHOOSE j \in 1..i - 1 :
                       /\ iseq.eList[j].key = iseq.eList[i].key
                       /\ \A x \in j + 1..i - 1 :
                             iseq.eList[x].key # iseq.eList[i].key].type
    ELSE iseq.before[iseq.eList[i].key]

\* C39: the IntervalSequencer triggers no enter or exit event before both
\* timing objects have reported a change; after that the enter and exit
\* events of every key alternate, starting with enter, and after each resolve
\* the active keys are the keys of the cues found for the closed interval
\* between the positions of the two timing objects
C39_EnterExitAlternate ==
    /\ ~(iseq.readyA /\ iseq.readyB) =>
          /\ iseq.eList = <<>>
          /\ \A k \in Keys : iseq.last[k] = "none"
          /\ iseq.activeKeys = <<>>
    /\ \A i \in 1..Len(iseq.eList) :
          /\ iseq.eList[i].type \in {"enter", "exit"}
          /\ iseq.eList[i].type # PrevType(i)
          /\ PrevType(i) = "none" => iseq.eList[i].type = "enter"
    /\ (iseq.readyA /\ iseq.readyB) =>
          /\ SeqToSet(iseq.activeKeys) =
                SeqToSet(KeysByInterval(iseq.cues,
                    Interval(IF iseq.posA <= iseq.posB THEN iseq.posA ELSE iseq.posB,
                             IF iseq.posA <= iseq.posB THEN iseq.posB ELSE iseq.posA,
                             TRUE, TRUE), 1))
          /\ \A i, j \in 1..Len(iseq.activeKeys) :
                i # j => iseq.activeKeys[i] # iseq.activeKeys[j]

\* the sequencers have reported events with one cue active and another not:
\* the resolve has triggered the exit of the first, after its enter, and the
\* enter of the second, after its exit
C39_Witness ==
    /\ iseq.op = "events"
    /\ \E i, j \in 1..Len(iseq.eList) :
          /\ iseq.eList[i].type = "exit" /\ iseq.before[iseq.eList[i].key] = "enter"
          /\ iseq.eList[j].type = "enter" /\ iseq.before[iseq.eList[j].key] = "exit"
====
